---------------------------- MODULE Spec2Model ----------------------------
(***************************************************************************)
(* Event store adapter: an append-only journal plus a current-state        *)
(* snapshot per aggregate, in two backends.                                *)
(*                                                                         *)
(*   - EventStoreOnMemory   : two maps, events and snapshots.              *)
(*   - EventStoreOnDynamoDB : a journal table and a snapshot table written *)
(*     by conditional, transactional multi-item writes, plus the           *)
(*     retention pass over historical snapshot rows.                       *)
(*                                                                         *)
(* Strings built by formatting ("%s-%s") are modelled as tuples of their   *)
(* parts, so two keys are equal exactly when their parts are.              *)
(***************************************************************************)
EXTENDS Integers, Sequences, FiniteSets, TLC

(***************************************************************************)
(* Bounds of the exploration.                                              *)
(***************************************************************************)
\* largest sequence number a caller may put on an event
MaxSeqNr == 2
\* calls are issued only while fewer events than this are stored, over all
\* aggregates, in each backend
MaxEvents == 2

\* the values of the two user-account ids the callers use
AccountValues == {"1", "2"}
\* the names a caller may give an account
Names == {"test", "test2"}

\* the absent value: a nil interface, a missing map entry, no aggregate argument
Nil == [nil |-> TRUE]
\* no error
NoError == "NoError"
\* no call has returned yet
NoResult == "NoResult"

(***************************************************************************)
(* Outcomes of a store call.                                               *)
(***************************************************************************)
Ok == "ok"
OptimisticLockError == "OptimisticLockError"
IOError == "IOError"
Panic == "panic"

(***************************************************************************)
(* The domain: user-account ids, aggregates and events.                    *)
(***************************************************************************)
newUserAccountId(value) == [typeName |-> "UserAccountId", value |-> value]

UserAccountIds == {newUserAccountId(v) : v \in AccountValues}

\* AsString: "{TypeName}-{Value}"
AsString(id) == <<id.typeName, id.value>>

AggregateIdStrings == {AsString(id) : id \in UserAccountIds}

newUserAccountCreated(aggregateId, seqNr, name) ==
    [typeName |-> "UserAccountCreated", aggregateId |-> aggregateId,
     seqNr |-> seqNr, name |-> name]

newUserAccountNameChanged(aggregateId, seqNr, name) ==
    [typeName |-> "UserAccountNameChanged", aggregateId |-> aggregateId,
     seqNr |-> seqNr, name |-> name]

IsCreated(event) == event.typeName = "UserAccountCreated"

\* UserAccount{Id, Name, SeqNr, Version}
UserAccount(id, name, seqNr, version) ==
    [id |-> id, name |-> name, seqNr |-> seqNr, version |-> version]

IncrementSeq(ua) == [ua EXCEPT !.seqNr = @ + 1]

\* NewUserAccount: SeqNr 0 and Version 1, then IncrementSeq; the creation
\* event carries the incremented sequence number.
NewUserAccount(accountId, name) ==
    LET aggregate == IncrementSeq(UserAccount(accountId, name, 0, 1))
    IN  [aggregate |-> aggregate,
         event |-> newUserAccountCreated(accountId, aggregate.seqNr, name)]

WithVersion(ua, version) == [ua EXCEPT !.version = version]

\* Rename: a copy with the new name and the next sequence number, and the
\* event that records it.  The version is copied unchanged.
Rename(ua, name) ==
    LET userAccount == IncrementSeq([ua EXCEPT !.name = name])
    IN  [aggregate |-> userAccount,
         event |-> newUserAccountNameChanged(ua.id, userAccount.seqNr, name)]

applyEvent(ua, event) ==
    IF event.typeName = "UserAccountNameChanged"
    THEN Rename(ua, event.name).aggregate
    ELSE ua

RECURSIVE replayUserAccount(_, _)
replayUserAccount(eventList, snapshot) ==
    IF eventList = <<>>
    THEN snapshot
    ELSE replayUserAccount(Tail(eventList), applyEvent(snapshot, Head(eventList)))

\* Equals compares the id value and the name only
Equals(ua, other) == ua.id.value = other.id.value /\ ua.name = other.name

(***************************************************************************)
(* Inputs the callers draw from.                                           *)
(***************************************************************************)
SeqNrs == 1..MaxSeqNr
\* no stored version exceeds the number of stored events
Versions == 0..MaxEvents

\* the events of a caller of the store: any id and sequence number; a
\* creation carries the first name, a change the second
EventInputs ==
    {newUserAccountCreated(id, s, "test") : id \in UserAccountIds, s \in SeqNrs}
    \cup
    {newUserAccountNameChanged(id, s, "test2") : id \in UserAccountIds, s \in SeqNrs}

\* the aggregates a caller may hand over together with event e: the id, name
\* and sequence number of the event; any version with a change, the version
\* of a new account with a creation
AggregateInputs(e) ==
    {UserAccount(e.aggregateId, e.name, e.seqNr, v) :
        v \in IF IsCreated(e) THEN {1} ELSE Versions}

(***************************************************************************)
(* State.                                                                  *)
(*                                                                         *)
(*   events, snapshots            the two maps of EventStoreOnMemory       *)
(*   journalTable, snapshotTable  the rows of the two DynamoDB tables      *)
(*   keepSnapshot, keepSnapshotCount, deleteTtl                            *)
(*                                the options of EventStoreOnDynamoDB      *)
(*   memResult, ddbResult         what the last call returned, per backend *)
(*   lastCall                     the last call: the operation, its event, *)
(*                                the expected version and the aggregate   *)
(*   memUpdates, ddbUpdates       history: per aggregate, the number of    *)
(*                                successful PersistEvent calls since its  *)
(*                                genesis while nothing else has written   *)
(*                                it (-1: no genesis yet, or another write)*)
(*   authoritative                history: per backend and aggregate, the  *)
(*                                aggregate whose event a repository       *)
(*                                caller persisted last                    *)
(*   pc, local                    the concurrent callers: where each is in *)
(*                                its request, and its local variables     *)
(***************************************************************************)
VARIABLES events, snapshots, journalTable, snapshotTable,
          keepSnapshot, keepSnapshotCount, deleteTtl,
          memResult, ddbResult, lastCall,
          memUpdates, ddbUpdates, authoritative,
          pc, local

memVars == <<events, snapshots>>
ddbVars == <<journalTable, snapshotTable>>
optVars == <<keepSnapshot, keepSnapshotCount, deleteTtl>>
callVars == <<memResult, ddbResult, lastCall>>
histVars == <<memUpdates, ddbUpdates, authoritative>>
procVars == <<pc, local>>
vars == <<events, snapshots, journalTable, snapshotTable,
          keepSnapshot, keepSnapshotCount, deleteTtl,
          memResult, ddbResult, lastCall,
          memUpdates, ddbUpdates, authoritative, pc, local>>

(***************************************************************************)
(* EventStoreOnMemory.                                                     *)
(* A store operation is an operator from the two maps and the arguments to *)
(* the outcome and the two maps afterwards.                                *)
(***************************************************************************)
initialVersion == 1

MemOutcome(result, ev, sn) == [result |-> result, events |-> ev, snapshots |-> sn]

\* GetLatestSnapshotById: the stored aggregate, or the empty result
MemGetLatestSnapshotById(sn, aggregateId) == sn[AsString(aggregateId)]

\* GetEventsByIdSinceSeqNr: the events of the list with GetSeqNr() >= seqNr,
\* in the order of the list
MemGetEventsByIdSinceSeqNr(ev, aggregateId, seqNr) ==
    SelectSeq(ev[AsString(aggregateId)], LAMBDA event : event.seqNr >= seqNr)

\* the comparison of PersistEvent (line 47) and PersistEventAndSnapshot (line 64)
\* a variant of the check of line 47 that lets an expected version below the
\* stored one pass; C3 has to tell the two apart
MemVersionMismatchBelowOnly(stored, version) == stored.version < version

\* line 47 (and 63-64): GetVersion() != version

MemVersionMismatch(stored, version) == stored.version # version

\* newVersion of lines 50 and 67
\* a variant of newVersion that does not advance; C7 has to tell the two apart
MemNewVersionSame(stored) == stored.version

MemNewVersion(stored) == stored.version + 1

\* a variant of PersistEvent that also moves the stored state to the seq_nr
\* of the event; C15 has to tell the two apart
MemPersistEventAdvancingSeqNr(ev, sn, event, version) ==
    LET aggregateId == AsString(event.aggregateId)
    IN  IF IsCreated(event) THEN MemOutcome(Panic, ev, sn)
        ELSE IF sn[aggregateId] = Nil THEN MemOutcome(Panic, ev, sn)
        ELSE IF MemVersionMismatch(sn[aggregateId], version)
             THEN MemOutcome(OptimisticLockError, ev, sn)
        ELSE MemOutcome(Ok,
                [ev EXCEPT ![aggregateId] = Append(@, event)],
                [sn EXCEPT ![aggregateId] =
                    WithVersion([@ EXCEPT !.seqNr = event.seqNr], MemNewVersion(@))])

\* PersistEvent.  es.snapshots[aggregateId].GetVersion() on a missing entry
\* calls a method on a nil interface value, which panics.
MemPersistEvent(ev, sn, event, version) ==
    LET aggregateId == AsString(event.aggregateId)
    IN  IF IsCreated(event) THEN MemOutcome(Panic, ev, sn)
        ELSE IF sn[aggregateId] = Nil THEN MemOutcome(Panic, ev, sn)
        ELSE IF MemVersionMismatch(sn[aggregateId], version)
             THEN MemOutcome(OptimisticLockError, ev, sn)
        ELSE MemOutcome(Ok,
                [ev EXCEPT ![aggregateId] = Append(@, event)],
                [sn EXCEPT ![aggregateId] = WithVersion(@, MemNewVersion(@))])

\* a variant of PersistEventAndSnapshot whose update keeps the state that is
\* stored and advances its version alone; C12 has to tell the two apart
MemPersistEventAndSnapshotKeepingState(ev, sn, event, aggregate) ==
    LET aggregateId == AsString(event.aggregateId)
        stored == sn[aggregateId]
        written(newVersion) ==
            MemOutcome(Ok,
                [ev EXCEPT ![aggregateId] = Append(@, event)],
                [sn EXCEPT ![aggregateId] =
                    WithVersion(IF stored = Nil THEN aggregate ELSE stored, newVersion)])
    IN  IF IsCreated(event) THEN written(initialVersion)
        ELSE IF stored = Nil THEN MemOutcome(Panic, ev, sn)
        ELSE IF MemVersionMismatch(stored, aggregate.version)
             THEN MemOutcome(OptimisticLockError, ev, sn)
        ELSE written(MemNewVersion(stored))

\* PersistEventAndSnapshot: the version is compared only when the event is
\* not a creation; a creation stores initialVersion whatever is stored.
MemPersistEventAndSnapshot(ev, sn, event, aggregate) ==
    LET aggregateId == AsString(event.aggregateId)
        stored == sn[aggregateId]
        written(newVersion) ==
            MemOutcome(Ok,
                [ev EXCEPT ![aggregateId] = Append(@, event)],
                [sn EXCEPT ![aggregateId] = WithVersion(aggregate, newVersion)])
    IN  IF IsCreated(event) THEN written(initialVersion)
        ELSE IF stored = Nil THEN MemOutcome(Panic, ev, sn)
        ELSE IF MemVersionMismatch(stored, aggregate.version)
             THEN MemOutcome(OptimisticLockError, ev, sn)
        ELSE written(MemNewVersion(stored))

(***************************************************************************)
(* EventStoreOnDynamoDB: keys, serializers and converters.                 *)
(***************************************************************************)
\* the shard count the store is constructed with
shardCount == 1

\* hash of an id value, as used by the default key resolver
HashValue(value) == IF value = "1" THEN 1 ELSE 2

\* ResolvePkey: "{type_name}-{hash(value) mod shard_count}"
ResolvePkey(aggregateId, shards) ==
    <<aggregateId.typeName, HashValue(aggregateId.value) % shards>>

\* ResolveSkey: "{aggregate_id}-{seq_nr}"; sequence number 0 is the key of
\* the current-state row
ResolveSkey(aggregateId, seqNr) == <<AsString(aggregateId), seqNr>>

\* the default event serializer: the attribute map of the event's fields
EventSerialize(event) ==
    [TypeName |-> event.typeName,
     AggregateId |-> [Value |-> event.aggregateId.value],
     SeqNr |-> event.seqNr,
     Name |-> event.name]

\* the event converter: rebuilds the event from its attribute map
eventConverter(m) ==
    IF m.TypeName = "UserAccountCreated"
    THEN newUserAccountCreated(newUserAccountId(m.AggregateId.Value), m.SeqNr, m.Name)
    ELSE newUserAccountNameChanged(newUserAccountId(m.AggregateId.Value), m.SeqNr, m.Name)

\* the default snapshot serializer: the attribute map of the exported fields
\* of UserAccount
SnapshotSerialize(aggregate) ==
    [Id |-> [Value |-> aggregate.id.value],
     Name |-> aggregate.name,
     SeqNr |-> aggregate.seqNr,
     Version |-> aggregate.version]

\* the snapshot converter: a new user account from the Id value and the
\* Name of the attribute map; SeqNr and Version of the map are not read
snapshotConverter(m) == NewUserAccount(newUserAccountId(m.Id.Value), m.Name).aggregate

(***************************************************************************)
(* The requests the store builds.                                          *)
(***************************************************************************)
KeyOf(row) == <<row.pkey, row.skey>>

\* putJournal: a conditional put of the journal row of the event
putJournal(event) ==
    [op |-> "Put", table |-> "journal",
     item |-> [pkey |-> ResolvePkey(event.aggregateId, shardCount),
               skey |-> ResolveSkey(event.aggregateId, event.seqNr),
               aid |-> AsString(event.aggregateId),
               seq_nr |-> event.seqNr,
               payload |-> EventSerialize(event)]]

\* putSnapshot: a conditional put of a snapshot row with version 1 and ttl 0
putSnapshot(event, seqNr, aggregate) ==
    [op |-> "Put", table |-> "snapshot",
     item |-> [pkey |-> ResolvePkey(event.aggregateId, shardCount),
               skey |-> ResolveSkey(event.aggregateId, seqNr),
               aid |-> AsString(event.aggregateId),
               seq_nr |-> seqNr,
               payload |-> SnapshotSerialize(aggregate),
               version |-> 1,
               ttl |-> 0]]

\* a variant of updateSnapshot that leaves the version as it is; C21 has to
\* tell the two apart
updateSnapshotKeepingVersion(event, seqNr, version, aggregate) ==
    [op |-> "Update", table |-> "snapshot",
     key |-> <<ResolvePkey(event.aggregateId, shardCount),
               ResolveSkey(event.aggregateId, seqNr)>>,
     before_version |-> version,
     after_version |-> version,
     setPayload |-> aggregate # Nil,
     seq_nr |-> seqNr,
     payload |-> IF aggregate = Nil THEN Nil ELSE SnapshotSerialize(aggregate)]

\* updateSnapshot: SET version = version + 1 on the row with the resolved
\* key, on the condition version = :before_version; with an aggregate also
\* SET payload and seq_nr (the seqNr argument)
updateSnapshot(event, seqNr, version, aggregate) ==
    [op |-> "Update", table |-> "snapshot",
     key |-> <<ResolvePkey(event.aggregateId, shardCount),
               ResolveSkey(event.aggregateId, seqNr)>>,
     before_version |-> version,
     after_version |-> version + 1,
     setPayload |-> aggregate # Nil,
     seq_nr |-> seqNr,
     payload |-> IF aggregate = Nil THEN Nil ELSE SnapshotSerialize(aggregate)]

(***************************************************************************)
(* The backend: conditional writes in one transaction.                     *)
(***************************************************************************)
TableOf(item, journal, snapshot) == IF item.table = "journal" THEN journal ELSE snapshot

ItemKey(item) == IF item.op = "Put" THEN KeyOf(item.item) ELSE item.key

\* a variant of the condition of a put that holds whatever the table has;
\* C26 has to tell the two apart
PutConditionHoldsAlways(item, table) == TRUE

\* attribute_not_exists(pkey) AND attribute_not_exists(skey): no row has the key
PutConditionHolds(item, table) == \A row \in table : KeyOf(row) # KeyOf(item.item)

\* #version = :before_version: the row exists and carries that version
UpdateConditionHolds(item, table) ==
    \E row \in table : KeyOf(row) = item.key /\ row.version = item.before_version

ConditionHolds(item, journal, snapshot) ==
    IF item.op = "Put"
    THEN PutConditionHolds(item, TableOf(item, journal, snapshot))
    ELSE UpdateConditionHolds(item, TableOf(item, journal, snapshot))

\* one cancellation reason per item
CancellationReasons(items, journal, snapshot) ==
    [i \in DOMAIN items |->
        IF ConditionHolds(items[i], journal, snapshot)
        THEN "None" ELSE "ConditionalCheckFailed"]

\* a transaction may not hold two operations on one item
SameItemTwice(items) ==
    \E i, j \in DOMAIN items :
        i # j /\ items[i].table = items[j].table /\ ItemKey(items[i]) = ItemKey(items[j])

\* a variant of the write of an item whose put takes the place of the rows
\* of its aggregate; C28 has to tell the two apart
ApplyItemReplacingAggregate(item, table) ==
    IF item.op = "Put"
    THEN {row \in table : row.aid # item.item.aid} \cup {item.item}
    ELSE {IF KeyOf(row) # item.key THEN row
          ELSE IF item.setPayload
               THEN [row EXCEPT !.payload = item.payload, !.seq_nr = item.seq_nr,
                                !.version = item.after_version]
               ELSE [row EXCEPT !.version = item.after_version] : row \in table}

ApplyItem(item, table) ==
    IF item.op = "Put"
    THEN {row \in table : KeyOf(row) # KeyOf(item.item)} \cup {item.item}
    ELSE {IF KeyOf(row) # item.key THEN row
          ELSE IF item.setPayload
               THEN [row EXCEPT !.payload = item.payload, !.seq_nr = item.seq_nr,
                                !.version = item.after_version]
               ELSE [row EXCEPT !.version = item.after_version] : row \in table}

RECURSIVE ApplyItems(_, _, _)
ApplyItems(items, journal, snapshot) ==
    IF items = <<>>
    THEN [journal |-> journal, snapshot |-> snapshot]
    ELSE LET item == Head(items)
         IN  IF item.table = "journal"
             THEN ApplyItems(Tail(items), ApplyItem(item, journal), snapshot)
             ELSE ApplyItems(Tail(items), journal, ApplyItem(item, snapshot))

\* TransactWriteItems: every condition is evaluated on the tables as they
\* are; all items are written, or none is.
TransactWriteItems(items, journal, snapshot) ==
    LET reasons == CancellationReasons(items, journal, snapshot)
    IN  IF SameItemTwice(items)
        THEN [err |-> "ValidationException", reasons |-> <<>>,
              journal |-> journal, snapshot |-> snapshot]
        ELSE IF \E i \in DOMAIN reasons : reasons[i] # "None"
        THEN [err |-> "TransactionCanceledException", reasons |-> reasons,
              journal |-> journal, snapshot |-> snapshot]
        ELSE LET written == ApplyItems(items, journal, snapshot)
             IN  [err |-> NoError, reasons |-> <<>>,
                  journal |-> written.journal, snapshot |-> written.snapshot]

\* a variant of the classification that takes every cancelled transaction
\* for a failed condition; C22 has to tell the two apart
TransactErrorOfAnyCancellation(out) ==
    IF out.err = NoError THEN Ok
    ELSE IF out.err = "TransactionCanceledException" THEN OptimisticLockError
    ELSE IOError

\* the classification of a failed transactional write (lines 507-520, 557-570)
TransactError(out) ==
    IF out.err = NoError THEN Ok
    ELSE IF out.err = "TransactionCanceledException"
            /\ \E i \in DOMAIN out.reasons : out.reasons[i] = "ConditionalCheckFailed"
         THEN OptimisticLockError
    ELSE IOError

DdbOutcome(result, journal, snapshot) ==
    [result |-> result, journal |-> journal, snapshot |-> snapshot]

(***************************************************************************)
(* EventStoreOnDynamoDB: the transactional writes.                         *)
(* opts is the record of the store's options.                              *)
(***************************************************************************)
\* a variant of the transaction that leaves the journal put out; C6 has to
\* tell the two apart
UpdateTransactItemsSnapshotOnly(opts, event, version, aggregate) ==
    <<updateSnapshot(event, 0, version, aggregate)>>

\* a variant of the transaction that puts the historical row whenever an
\* aggregate is handed over; C27 has to tell the two apart
UpdateTransactItemsKeepingAlways(opts, event, version, aggregate) ==
    <<updateSnapshot(event, 0, version, aggregate), putJournal(event)>>
    \o (IF aggregate # Nil
        THEN <<putSnapshot(event, aggregate.seqNr, aggregate)>>
        ELSE <<>>)

\* the items of updateEventAndSnapshotOpt, in order (lines 496-506)
UpdateTransactItems(opts, event, version, aggregate) ==
    <<updateSnapshot(event, 0, version, aggregate), putJournal(event)>>
    \o (IF opts.keepSnapshot /\ aggregate # Nil
        THEN <<putSnapshot(event, aggregate.seqNr, aggregate)>>
        ELSE <<>>)

\* the items of createEventAndSnapshot, in order (lines 545-555)
CreateTransactItems(opts, event, aggregate) ==
    <<putSnapshot(event, 0, aggregate), putJournal(event)>>
    \o (IF opts.keepSnapshot
        THEN <<putSnapshot(event, aggregate.seqNr, aggregate)>>
        ELSE <<>>)

updateEventAndSnapshotOpt(journal, snapshot, opts, event, version, aggregate) ==
    LET out == TransactWriteItems(UpdateTransactItems(opts, event, version, aggregate),
                                  journal, snapshot)
    IN  DdbOutcome(TransactError(out), out.journal, out.snapshot)

createEventAndSnapshot(journal, snapshot, opts, event, aggregate) ==
    LET out == TransactWriteItems(CreateTransactItems(opts, event, aggregate),
                                  journal, snapshot)
    IN  DdbOutcome(TransactError(out), out.journal, out.snapshot)

(***************************************************************************)
(* EventStoreOnDynamoDB: the retention pass.                               *)
(***************************************************************************)
\* deleteTtl < math.MaxInt64
DeleteTtlIsFinite(opts) == opts.deleteTtl # "MaxInt64"

\* a variant of getSnapshotCount that counts the rows of every aggregate;
\* C24 has to tell the two apart
getSnapshotCountOfTable(snapshot, aggregateId) == Cardinality(snapshot)

\* getSnapshotCount: the number of rows of the aggregate in the aid index
getSnapshotCount(snapshot, aggregateId) ==
    Cardinality({row \in snapshot : row.aid = AsString(aggregateId)})

\* excessCount := uint32(snapshotCount) - keepSnapshotCount, then
\* excessCount > 0.  The subtraction is modulo 2^32, so the difference is 0
\* exactly when the two are equal and positive otherwise.
ExcessIsPositive(snapshotCount, keepCount) == snapshotCount # keepCount

\* a variant of the limit that is one short of the excess; C16 has to tell
\* the two apart
ExcessAsLimitLessOne(snapshotCount, keepCount) == snapshotCount - keepCount - 1

\* a variant of the limit that evicts one row per pass; C30 has to tell the
\* two apart
ExcessAsLimitOfOne(snapshotCount, keepCount) == 1

\* int32(excessCount): the difference modulo 2^32 read as a signed 32-bit
\* number, which is snapshotCount - keepCount for the counts of the model
ExcessAsLimit(snapshotCount, keepCount) == snapshotCount - keepCount

RECURSIVE SortDescending(_)
SortDescending(rows) ==
    IF rows = {}
    THEN <<>>
    ELSE LET top == CHOOSE r \in rows : \A o \in rows : o.seq_nr <= r.seq_nr
         IN  <<top>> \o SortDescending(rows \ {top})

RECURSIVE SortAscending(_)
SortAscending(rows) ==
    IF rows = {}
    THEN <<>>
    ELSE LET low == CHOOSE r \in rows : \A o \in rows : r.seq_nr <= o.seq_nr
         IN  <<low>> \o SortAscending(rows \ {low})

FirstRows(rows, limit) ==
    SubSeq(rows, 1, IF limit < Len(rows) THEN limit ELSE Len(rows))

\* the order in which the query of getLastSnapshotKeys reads the index:
\* ScanIndexForward = false
ScanOrder(rows) == SortDescending(rows)

\* a variant of getLastSnapshotKeys whose key condition admits the row with
\* seq_nr 0; C13 has to tell the two apart
getLastSnapshotKeysFromZero(snapshot, opts, aggregateId, limit) ==
    IF limit < 1
    THEN [err |-> IOError, keys |-> <<>>]
    ELSE LET matching == {row \in snapshot :
                            row.aid = AsString(aggregateId) /\ row.seq_nr >= 0}
             read == FirstRows(ScanOrder(matching), limit)
             kept == IF DeleteTtlIsFinite(opts)
                     THEN SelectSeq(read, LAMBDA row : row.ttl = 0)
                     ELSE read
         IN  [err |-> NoError, keys |-> [i \in DOMAIN kept |-> KeyOf(kept[i])]]

\* getLastSnapshotKeys: the rows of the aggregate with seq_nr > 0, newest
\* first, at most limit of them read, and of those read the ones with
\* ttl = 0 when deleteTtl is finite.  The backend refuses a limit below 1.
getLastSnapshotKeys(snapshot, opts, aggregateId, limit) ==
    IF limit < 1
    THEN [err |-> IOError, keys |-> <<>>]
    ELSE LET matching == {row \in snapshot :
                            row.aid = AsString(aggregateId) /\ row.seq_nr > 0}
             read == FirstRows(ScanOrder(matching), limit)
             kept == IF DeleteTtlIsFinite(opts)
                     THEN SelectSeq(read, LAMBDA row : row.ttl = 0)
                     ELSE read
         IN  [err |-> NoError, keys |-> [i \in DOMAIN kept |-> KeyOf(kept[i])]]

KeySet(keys) == {keys[i] : i \in DOMAIN keys}

\* BatchWriteItem of delete requests: the rows with these keys are removed;
\* the backend refuses an empty list of requests
BatchDelete(keys, snapshot) ==
    IF keys = <<>>
    THEN [err |-> IOError, snapshot |-> snapshot]
    ELSE [err |-> NoError, snapshot |-> {row \in snapshot : KeyOf(row) \notin KeySet(keys)}]

\* a variant of the expiry time that is the value of a row without a ttl;
\* C17 has to tell the two apart
ExpiryTimeZero(opts) == 0

\* time.Now().Add(deleteTtl).Unix(): a time after the epoch
ExpiryTime(opts) == 1

\* UpdateItem SET ttl: changes the row with the key, or creates a row that
\* holds only the key and the ttl
UpdateItemTtl(key, ttl, snapshot) ==
    IF \E row \in snapshot : KeyOf(row) = key
    THEN {IF KeyOf(row) = key THEN [row EXCEPT !.ttl = ttl] ELSE row : row \in snapshot}
    ELSE snapshot \cup {[pkey |-> key[1], skey |-> key[2], aid |-> <<>>, seq_nr |-> -1,
                         payload |-> Nil, version |-> -1, ttl |-> ttl]}

RECURSIVE UpdateItemsTtl(_, _, _)
UpdateItemsTtl(keys, ttl, snapshot) ==
    IF keys = <<>>
    THEN snapshot
    ELSE UpdateItemsTtl(Tail(keys), ttl, UpdateItemTtl(Head(keys), ttl, snapshot))

PurgeOutcome(result, snapshot) == [result |-> result, snapshot |-> snapshot]

deleteExcessSnapshots(snapshot, opts, aggregateId) ==
    IF ~(opts.keepSnapshot /\ opts.keepSnapshotCount > 0)
    THEN PurgeOutcome(Ok, snapshot)
    ELSE LET snapshotCount == getSnapshotCount(snapshot, aggregateId) - 1
         IN  IF ~ExcessIsPositive(snapshotCount, opts.keepSnapshotCount)
             THEN PurgeOutcome(Ok, snapshot)
             ELSE LET q == getLastSnapshotKeys(snapshot, opts, aggregateId,
                               ExcessAsLimit(snapshotCount, opts.keepSnapshotCount))
                      d == BatchDelete(q.keys, snapshot)
                  IN  IF q.err # NoError THEN PurgeOutcome(IOError, snapshot)
                      ELSE IF d.err # NoError THEN PurgeOutcome(IOError, snapshot)
                      ELSE PurgeOutcome(Ok, d.snapshot)

updateTtlOfExcessSnapshots(snapshot, opts, aggregateId) ==
    IF ~(opts.keepSnapshot /\ opts.keepSnapshotCount > 0)
    THEN PurgeOutcome(Ok, snapshot)
    ELSE LET snapshotCount == getSnapshotCount(snapshot, aggregateId) - 1
         IN  IF ~ExcessIsPositive(snapshotCount, opts.keepSnapshotCount)
             THEN PurgeOutcome(Ok, snapshot)
             ELSE LET q == getLastSnapshotKeys(snapshot, opts, aggregateId,
                               ExcessAsLimit(snapshotCount, opts.keepSnapshotCount))
                  IN  IF q.err # NoError THEN PurgeOutcome(IOError, snapshot)
                      ELSE PurgeOutcome(Ok,
                              UpdateItemsTtl(q.keys, ExpiryTime(opts), snapshot))

\* a variant of the condition that asks for keepSnapshot alone; C20 has to
\* tell the two apart
PurgeIsEnabledWithAnyCount(opts) == opts.keepSnapshot

\* es.keepSnapshot && es.keepSnapshotCount > 0, the condition under which
\* tryPurgeExcessSnapshots runs a pass
PurgeIsEnabled(opts) == opts.keepSnapshot /\ opts.keepSnapshotCount > 0

tryPurgeExcessSnapshots(snapshot, opts, aggregateId) ==
    IF PurgeIsEnabled(opts)
    THEN IF DeleteTtlIsFinite(opts)
         THEN updateTtlOfExcessSnapshots(snapshot, opts, aggregateId)
         ELSE deleteExcessSnapshots(snapshot, opts, aggregateId)
    ELSE PurgeOutcome(Ok, snapshot)

(***************************************************************************)
(* EventStoreOnDynamoDB: the four operations.                              *)
(***************************************************************************)
\* GetLatestSnapshotById: the row of the aggregate with seq_nr = 0 in the
\* aid index; its payload through the converter, stamped with its version
DdbGetLatestSnapshotById(snapshot, aggregateId) ==
    LET items == {row \in snapshot : row.aid = AsString(aggregateId) /\ row.seq_nr = 0}
    IN  IF items = {} THEN Nil
        ELSE LET item == CHOOSE row \in items : TRUE
             IN  WithVersion(snapshotConverter(item.payload), item.version)

\* a variant of GetEventsByIdSinceSeqNr whose key condition leaves the
\* aggregate out; C23 has to tell the two apart
DdbGetEventsOfAnyIdSinceSeqNr(journal, aggregateId, seqNr) ==
    LET items == SortAscending({row \in journal : row.seq_nr >= seqNr})
    IN  [i \in DOMAIN items |-> eventConverter(items[i].payload)]

\* GetEventsByIdSinceSeqNr: the journal rows of the aggregate with
\* seq_nr >= seqNr in index order, each through the converter
DdbGetEventsByIdSinceSeqNr(journal, aggregateId, seqNr) ==
    LET items == SortAscending({row \in journal :
                     row.aid = AsString(aggregateId) /\ row.seq_nr >= seqNr})
    IN  [i \in DOMAIN items |-> eventConverter(items[i].payload)]

\* the retention pass that follows a committed update
PurgeAfter(written, opts, event) ==
    IF written.result # Ok
    THEN written
    ELSE LET purged == tryPurgeExcessSnapshots(written.snapshot, opts, event.aggregateId)
         IN  DdbOutcome(purged.result, written.journal, purged.snapshot)

DdbPersistEvent(journal, snapshot, opts, event, version) ==
    IF IsCreated(event)
    THEN DdbOutcome(Panic, journal, snapshot)
    ELSE PurgeAfter(updateEventAndSnapshotOpt(journal, snapshot, opts, event, version, Nil),
                    opts, event)

DdbPersistEventAndSnapshot(journal, snapshot, opts, event, aggregate) ==
    IF IsCreated(event)
    THEN createEventAndSnapshot(journal, snapshot, opts, event, aggregate)
    ELSE PurgeAfter(updateEventAndSnapshotOpt(journal, snapshot, opts, event,
                                              aggregate.version, aggregate),
                    opts, event)

(***************************************************************************)
(* Construction.                                                           *)
(***************************************************************************)
\* the option records the store is constructed with: the defaults of
\* NewEventStoreOnDynamoDB, and WithKeepSnapshot(true) with a keep count of
\* 1 (hard delete and TTL) and of 2
OptionInputs ==
    {[keepSnapshot |-> FALSE, keepSnapshotCount |-> 1, deleteTtl |-> "MaxInt64"]}
    \cup
    {[keepSnapshot |-> TRUE, keepSnapshotCount |-> 1, deleteTtl |-> "MaxInt64"],
     [keepSnapshot |-> TRUE, keepSnapshotCount |-> 1, deleteTtl |-> "1s"],
     [keepSnapshot |-> TRUE, keepSnapshotCount |-> 2, deleteTtl |-> "MaxInt64"]}

\* the option records for the specifications of the retention pass: those
\* above, a keep count of 2 with a TTL, and WithKeepSnapshotCount(0)
RetentionOptionInputs ==
    OptionInputs
    \cup
    {[keepSnapshot |-> TRUE, keepSnapshotCount |-> 2, deleteTtl |-> "1s"],
     [keepSnapshot |-> TRUE, keepSnapshotCount |-> 0, deleteTtl |-> "MaxInt64"]}

Options ==
    [keepSnapshot |-> keepSnapshot, keepSnapshotCount |-> keepSnapshotCount,
     deleteTtl |-> deleteTtl]

\* the two concurrent callers
Writers == {"w1", "w2"}

Backends == {"mem", "ddb"}

Init ==
    /\ events = [a \in AggregateIdStrings |-> <<>>]
    /\ snapshots = [a \in AggregateIdStrings |-> Nil]
    /\ journalTable = {}
    /\ snapshotTable = {}
    /\ \E o \in OptionInputs :
          /\ keepSnapshot = o.keepSnapshot
          /\ keepSnapshotCount = o.keepSnapshotCount
          /\ deleteTtl = o.deleteTtl
    /\ memResult = NoResult
    /\ ddbResult = NoResult
    /\ lastCall = Nil
    /\ memUpdates = [a \in AggregateIdStrings |-> -1]
    /\ ddbUpdates = [a \in AggregateIdStrings |-> -1]
    /\ authoritative = [b \in Backends |-> [a \in AggregateIdStrings |-> Nil]]
    /\ pc = [w \in Writers |-> "idle"]
    /\ local = [w \in Writers |-> Nil]

\* the same construction with the option records of the retention pass
InitRetention ==
    /\ events = [a \in AggregateIdStrings |-> <<>>]
    /\ snapshots = [a \in AggregateIdStrings |-> Nil]
    /\ journalTable = {}
    /\ snapshotTable = {}
    /\ \E o \in RetentionOptionInputs :
          /\ keepSnapshot = o.keepSnapshot
          /\ keepSnapshotCount = o.keepSnapshotCount
          /\ deleteTtl = o.deleteTtl
    /\ memResult = NoResult
    /\ ddbResult = NoResult
    /\ lastCall = Nil
    /\ memUpdates = [a \in AggregateIdStrings |-> -1]
    /\ ddbUpdates = [a \in AggregateIdStrings |-> -1]
    /\ authoritative = [b \in Backends |-> [a \in AggregateIdStrings |-> Nil]]
    /\ pc = [w \in Writers |-> "idle"]
    /\ local = [w \in Writers |-> Nil]

(***************************************************************************)
(* Reading the stored state.                                               *)
(***************************************************************************)
\* the current-state rows of an aggregate: sort key with sequence number 0
CurrentRows(snapshot, aggregateId) ==
    {row \in snapshot : row.skey = ResolveSkey(aggregateId, 0)}

\* the historical rows of an aggregate in the aid index
HistoricalRows(snapshot, aggregateId) ==
    {row \in snapshot : row.aid = AsString(aggregateId) /\ row.seq_nr > 0}

JournalRows(journal, aggregateId) ==
    {row \in journal : row.aid = AsString(aggregateId)}

RECURSIVE StoredEvents(_, _)
StoredEvents(ev, ids) ==
    IF ids = {}
    THEN 0
    ELSE LET a == CHOOSE x \in ids : TRUE
         IN  Len(ev[a]) + StoredEvents(ev, ids \ {a})

\* calls are issued only while each backend stores fewer than MaxEvents events
WithinBounds ==
    /\ StoredEvents(events, AggregateIdStrings) < MaxEvents
    /\ Cardinality(journalTable) < MaxEvents

(***************************************************************************)
(* History of the calls.                                                   *)
(***************************************************************************)
\* the count of successful PersistEvent calls after a call with this result
UpdatesAfterPersistEvent(n, result) ==
    IF result = Ok THEN (IF n >= 0 THEN n + 1 ELSE -1)
    ELSE IF result = IOError THEN -1
    ELSE n

UpdatesAfterPersistEventAndSnapshot(n, event, result) ==
    IF result = Ok THEN (IF IsCreated(event) THEN 0 ELSE -1)
    ELSE IF result = IOError THEN -1
    ELSE n

(***************************************************************************)
(* One caller at a time: every call is applied to both backends.           *)
(***************************************************************************)
PersistEvent(event, version) ==
    LET aid == AsString(event.aggregateId)
        mem == MemPersistEvent(events, snapshots, event, version)
        ddb == DdbPersistEvent(journalTable, snapshotTable, Options, event, version)
    IN  /\ WithinBounds
        /\ events' = mem.events
        /\ snapshots' = mem.snapshots
        /\ journalTable' = ddb.journal
        /\ snapshotTable' = ddb.snapshot
        /\ memResult' = mem.result
        /\ ddbResult' = ddb.result
        /\ lastCall' = [op |-> "PersistEvent", event |-> event, version |-> version,
                        aggregate |-> Nil]
        /\ memUpdates' = [memUpdates EXCEPT ![aid] = UpdatesAfterPersistEvent(@, mem.result)]
        /\ ddbUpdates' = [ddbUpdates EXCEPT ![aid] = UpdatesAfterPersistEvent(@, ddb.result)]
        /\ UNCHANGED <<optVars, authoritative, procVars>>

PersistEventAndSnapshot(event, aggregate) ==
    LET aid == AsString(event.aggregateId)
        mem == MemPersistEventAndSnapshot(events, snapshots, event, aggregate)
        ddb == DdbPersistEventAndSnapshot(journalTable, snapshotTable, Options,
                                          event, aggregate)
    IN  /\ WithinBounds
        /\ events' = mem.events
        /\ snapshots' = mem.snapshots
        /\ journalTable' = ddb.journal
        /\ snapshotTable' = ddb.snapshot
        /\ memResult' = mem.result
        /\ ddbResult' = ddb.result
        /\ lastCall' = [op |-> "PersistEventAndSnapshot", event |-> event,
                        version |-> aggregate.version, aggregate |-> aggregate]
        /\ memUpdates' = [memUpdates EXCEPT
                             ![aid] = UpdatesAfterPersistEventAndSnapshot(@, event, mem.result)]
        /\ ddbUpdates' = [ddbUpdates EXCEPT
                             ![aid] = UpdatesAfterPersistEventAndSnapshot(@, event, ddb.result)]
        /\ UNCHANGED <<optVars, authoritative, procVars>>

\* the backend's TTL sweeper removes a row whose ttl is set
TtlSweep ==
    \E row \in snapshotTable :
        /\ row.ttl # 0
        /\ snapshotTable' = snapshotTable \ {row}
        /\ UNCHANGED <<memVars, journalTable, optVars, callVars, histVars, procVars>>

Next ==
    \/ \E event \in EventInputs, version \in Versions : PersistEvent(event, version)
    \/ \E event \in EventInputs :
          \E aggregate \in AggregateInputs(event) : PersistEventAndSnapshot(event, aggregate)
    \/ TtlSweep

Spec == Init /\ [][Next]_vars

(***************************************************************************)
(* What the properties below read.                                         *)
(***************************************************************************)
\* a step of Spec in which a call was made and returned (the sweeper's
\* steps change the snapshot table alone)
CallStep == ~UNCHANGED <<memVars, journalTable, callVars>>

\* the call of a step is an update: its event is not a creation
UpdateCalled == lastCall' # Nil /\ ~IsCreated(lastCall'.event)

\* the call of a step is a genesis: PersistEventAndSnapshot with a creation
GenesisCalled ==
    /\ lastCall' # Nil
    /\ lastCall'.op = "PersistEventAndSnapshot"
    /\ IsCreated(lastCall'.event)

MemVersionOf(aid) == snapshots[aid].version

SeqNrsOf(eventList) == [i \in DOMAIN eventList |-> eventList[i].seqNr]

IsAscending(numbers) ==
    \A i, j \in DOMAIN numbers : i < j => numbers[i] <= numbers[j]

\* the events the in-memory journal holds for an aggregate
MemJournalEvents(id) == events[AsString(id)]

\* the events the journal table holds for an aggregate, in the order of the
\* aid index
DdbJournalEvents(id) == DdbGetEventsByIdSinceSeqNr(journalTable, id, 0)

Occurrences(eventList, event) ==
    Cardinality({i \in DOMAIN eventList : eventList[i] = event})

\* result is what get_events_since(id, seqNr) has to return when the journal
\* of id holds journalEvents
EventsSinceAsSpecified(result, id, seqNr, journalEvents) ==
    /\ \A i \in DOMAIN result :
          /\ result[i].aggregateId = id
          /\ result[i].seqNr >= seqNr
          /\ Occurrences(result, result[i]) = Occurrences(journalEvents, result[i])
    /\ \A i \in DOMAIN journalEvents :
          journalEvents[i].seqNr >= seqNr => Occurrences(result, journalEvents[i]) > 0
    /\ IsAscending(SeqNrsOf(result))

(***************************************************************************)
(* C3: an update (persist_event, or persist_event_and_snapshot with an     *)
(* event that is not a creation) called while the stored version of the    *)
(* aggregate differs from the expected version returns OptimisticLockError *)
(* and leaves the journal and every snapshot unchanged, in both backends.  *)
(***************************************************************************)
C3_StaleUpdateRejected ==
    [][(CallStep /\ UpdateCalled) =>
         LET id == lastCall'.event.aggregateId
             aid == AsString(id)
         IN  /\ (snapshots[aid] # Nil /\ MemVersionOf(aid) # lastCall'.version)
                   => (memResult' = OptimisticLockError /\ UNCHANGED memVars)
             /\ (\E row \in CurrentRows(snapshotTable, id) : row.version # lastCall'.version)
                   => (ddbResult' = OptimisticLockError /\ UNCHANGED ddbVars)]_vars

\* a stale update has been rejected by both backends, with stored state
C3_Witness ==
    /\ lastCall # Nil
    /\ ~IsCreated(lastCall.event)
    /\ memResult = OptimisticLockError
    /\ ddbResult = OptimisticLockError
    /\ snapshots[AsString(lastCall.event.aggregateId)] # Nil
    /\ MemVersionOf(AsString(lastCall.event.aggregateId)) # lastCall.version
    /\ \E row \in CurrentRows(snapshotTable, lastCall.event.aggregateId) :
          row.version # lastCall.version

(***************************************************************************)
(* C4: a genesis (persist_event_and_snapshot with a creation event) for an *)
(* aggregate that already has a current state returns OptimisticLockError  *)
(* and leaves the stored state unchanged, in both backends.                *)
(***************************************************************************)
C4_GenesisIdempotent ==
    [][(CallStep /\ GenesisCalled) =>
         LET id == lastCall'.event.aggregateId
             aid == AsString(id)
         IN  /\ snapshots[aid] # Nil
                   => (memResult' = OptimisticLockError /\ UNCHANGED memVars)
             /\ CurrentRows(snapshotTable, id) # {}
                   => (ddbResult' = OptimisticLockError /\ UNCHANGED ddbVars)]_vars

(***************************************************************************)
(* C5: the two backends are observationally equivalent: every call returns *)
(* the same outcome in both, and afterwards get_latest_snapshot returns    *)
(* the same version and get_events_since the same sequence numbers.        *)
(***************************************************************************)
C5_BackendsEquivalent ==
    /\ memResult = ddbResult
    /\ \A id \in UserAccountIds :
          LET mem == MemGetLatestSnapshotById(snapshots, id)
              ddb == DdbGetLatestSnapshotById(snapshotTable, id)
          IN  /\ (mem = Nil) = (ddb = Nil)
              /\ (mem # Nil /\ ddb # Nil) => mem.version = ddb.version
              /\ \A s \in SeqNrs :
                    SeqNrsOf(MemGetEventsByIdSinceSeqNr(events, id, s))
                       = SeqNrsOf(DdbGetEventsByIdSinceSeqNr(journalTable, id, s))

(***************************************************************************)
(* C7: after a genesis of an aggregate followed by N successful            *)
(* persist_event calls, exactly one current-state row exists for it, its   *)
(* version is N + 1, and get_latest_snapshot returns that version.         *)
(***************************************************************************)
C7_VersionAfterUpdates ==
    \A id \in UserAccountIds :
        LET aid == AsString(id)
        IN  /\ memUpdates[aid] >= 0 =>
                  /\ MemGetLatestSnapshotById(snapshots, id) # Nil
                  /\ MemGetLatestSnapshotById(snapshots, id).version = memUpdates[aid] + 1
            /\ ddbUpdates[aid] >= 0 =>
                  /\ Cardinality(CurrentRows(snapshotTable, id)) = 1
                  /\ \A row \in CurrentRows(snapshotTable, id) :
                        row.version = ddbUpdates[aid] + 1
                  /\ DdbGetLatestSnapshotById(snapshotTable, id) # Nil
                  /\ DdbGetLatestSnapshotById(snapshotTable, id).version
                        = ddbUpdates[aid] + 1

\* a genesis and at least one successful persist_event, in both backends
C7_Witness ==
    \E id \in UserAccountIds :
        memUpdates[AsString(id)] >= 1 /\ ddbUpdates[AsString(id)] >= 1

(***************************************************************************)
(* C8: get_events_since(A, s) returns exactly the journal events of A with *)
(* seq_nr >= s, each once, in ascending seq_nr order, and no event of      *)
(* another aggregate, in both backends.                                    *)
(***************************************************************************)
C8_EventsSince ==
    \A id \in UserAccountIds, s \in SeqNrs :
        /\ EventsSinceAsSpecified(MemGetEventsByIdSinceSeqNr(events, id, s), id, s,
                                  MemJournalEvents(id))
        /\ EventsSinceAsSpecified(DdbGetEventsByIdSinceSeqNr(journalTable, id, s), id, s,
                                  DdbJournalEvents(id))

(***************************************************************************)
(* C10: in every reachable state the journal entries of each aggregate     *)
(* carry the sequence numbers 1, 2, ..., N, in both backends.              *)
(***************************************************************************)
C10_JournalGapFree ==
    \A id \in UserAccountIds :
        /\ SeqNrsOf(MemJournalEvents(id)) = [i \in 1..Len(MemJournalEvents(id)) |-> i]
        /\ {row.seq_nr : row \in JournalRows(journalTable, id)}
              = 1..Cardinality(JournalRows(journalTable, id))

(***************************************************************************)
(* C11: a write whose event carries a seq_nr that the journal of the       *)
(* aggregate already holds returns OptimisticLockError and changes         *)
(* nothing, even when the expected version matches, so that no journal     *)
(* holds two entries of one seq_nr, in both backends.  A persist_event     *)
(* with a creation event is outside the operation's precondition.          *)
(***************************************************************************)
C11_DuplicateSeqNrRejected ==
    [][(CallStep /\ lastCall' # Nil
          /\ ~(lastCall'.op = "PersistEvent" /\ IsCreated(lastCall'.event))) =>
         LET id == lastCall'.event.aggregateId
             seqNr == lastCall'.event.seqNr
         IN  /\ (\E i \in DOMAIN MemJournalEvents(id) :
                     MemJournalEvents(id)[i].seqNr = seqNr)
                   => (memResult' = OptimisticLockError /\ UNCHANGED memVars)
             /\ (\E row \in JournalRows(journalTable, id) : row.seq_nr = seqNr)
                   => (ddbResult' = OptimisticLockError /\ UNCHANGED ddbVars)]_vars

(***************************************************************************)
(* What the store holds as the seq_nr of the current state: the seq_nr of  *)
(* the in-memory snapshot; the SeqNr inside the payload of the DynamoDB    *)
(* current-state row (the row's own seq_nr attribute is the constant 0     *)
(* that makes it the current-state row).                                   *)
(***************************************************************************)
Largest(numbers) == CHOOSE n \in numbers : \A o \in numbers : o <= n

MemLargestSeqNr(id) ==
    Largest({MemJournalEvents(id)[i].seqNr : i \in DOMAIN MemJournalEvents(id)})

DdbLargestSeqNr(id) == Largest({row.seq_nr : row \in JournalRows(journalTable, id)})

(***************************************************************************)
(* C12, as the code has it: a successful genesis or snapshot-advancing     *)
(* update leaves the seq_nr of the supplied aggregate as the seq_nr of the *)
(* current-state snapshot; a successful event-only update leaves the       *)
(* stored seq_nr (and, in DynamoDB, the whole payload) as it was, so that  *)
(* it lags behind the journal until the next snapshot-advancing write.     *)
(* The seq_nr attribute of the DynamoDB current-state row is always 0.     *)
(***************************************************************************)
C12_SnapshotSeqNrFollowsSnapshotWrites ==
    [][(CallStep /\ lastCall' # Nil) =>
         LET id == lastCall'.event.aggregateId
             aid == AsString(id)
             advancing == lastCall'.op = "PersistEventAndSnapshot"
         IN  /\ memResult' = Ok =>
                   snapshots'[aid].seqNr = IF advancing THEN lastCall'.aggregate.seqNr
                                           ELSE snapshots[aid].seqNr
             /\ ddbResult' = Ok =>
                   /\ CurrentRows(snapshotTable', id) # {}
                   /\ \A row \in CurrentRows(snapshotTable', id) :
                         /\ row.seq_nr = 0
                         /\ IF advancing
                            THEN row.payload.SeqNr = lastCall'.aggregate.seqNr
                            ELSE \E old \in CurrentRows(snapshotTable, id) :
                                    row.payload = old.payload]_vars

\* an event-only update has succeeded in both backends and the stored
\* seq_nr is below the seq_nr of the event it appended
C12_Witness ==
    /\ lastCall # Nil
    /\ lastCall.op = "PersistEvent"
    /\ memResult = Ok
    /\ ddbResult = Ok
    /\ snapshots[AsString(lastCall.event.aggregateId)].seqNr < lastCall.event.seqNr
    /\ \E row \in CurrentRows(snapshotTable, lastCall.event.aggregateId) :
          row.payload.SeqNr < lastCall.event.seqNr

\* C12 as stated: whenever an aggregate has a current state, its seq_nr is
\* the largest seq_nr of the aggregate's journal, in both backends
C12_SnapshotAtJournalHead ==
    \A id \in UserAccountIds :
        /\ snapshots[AsString(id)] # Nil =>
              snapshots[AsString(id)].seqNr = MemLargestSeqNr(id)
        /\ \A row \in CurrentRows(snapshotTable, id) :
              row.payload.SeqNr = DdbLargestSeqNr(id)

MaxWrites == 3

\* a variant of the first sequence number that replays the snapshot's own
\* event again; C9 has to tell the two apart
FirstSeqNrToReplayInclusive(snapshot) == snapshot.seqNr

\* FindById asks for the events from result.Aggregate().GetSeqNr()+1 on

FirstSeqNrToReplay(snapshot) == snapshot.seqNr + 1

\* FindById on EventStoreOnMemory: Nil stands for the "not found" error
MemFindById(ev, sn, id) ==
    LET result == MemGetLatestSnapshotById(sn, id)
    IN  IF result = Nil
        THEN Nil
        ELSE replayUserAccount(
                 MemGetEventsByIdSinceSeqNr(ev, id, FirstSeqNrToReplay(result)), result)

\* FindById on EventStoreOnDynamoDB
DdbFindById(journal, snapshot, id) ==
    LET result == DdbGetLatestSnapshotById(snapshot, id)
    IN  IF result = Nil
        THEN Nil
        ELSE replayUserAccount(
                 DdbGetEventsByIdSinceSeqNr(journal, id, FirstSeqNrToReplay(result)), result)

\* the two ways the repository stores an event
StoreModes == {"StoreEvent", "StoreEventAndSnapshot"}

NotFound == "NotFound"

\* StoreEvent(event, version) and StoreEventAndSnapshot(event, aggregate) of
\* a renamed account, on EventStoreOnMemory
MemStore(ev, sn, mode, renamed) ==
    IF mode = "StoreEvent"
    THEN MemPersistEvent(ev, sn, renamed.event, renamed.aggregate.version)
    ELSE MemPersistEventAndSnapshot(ev, sn, renamed.event, renamed.aggregate)

\* the same on EventStoreOnDynamoDB
DdbStore(journal, snapshot, opts, mode, renamed) ==
    IF mode = "StoreEvent"
    THEN DdbPersistEvent(journal, snapshot, opts, renamed.event, renamed.aggregate.version)
    ELSE DdbPersistEventAndSnapshot(journal, snapshot, opts, renamed.event,
                                    renamed.aggregate)

\* history: the state of the account after the event that was persisted
\* last, and the number of events persisted for it
AuthoritativeAfter(old, aggregate, persisted) ==
    IF persisted
    THEN [id |-> aggregate.id, name |-> aggregate.name, seqNr |-> aggregate.seqNr,
          version |-> IF old = Nil THEN 1 ELSE old.version + 1]
    ELSE old

RepoWithinBounds ==
    /\ StoredEvents(events, AggregateIdStrings) < MaxWrites
    /\ Cardinality(journalTable) < MaxWrites

\* the call that returned last: what the repository handed to each store
\* (the event and the aggregate), Nil where FindById found no account
RepoCall(op, id, mem, ddb) == [op |-> op, id |-> id, mem |-> mem, ddb |-> ddb]

\* an account is created under an id that no one has used
RepoCreate(id, name) ==
    LET aid == AsString(id)
        created == NewUserAccount(id, name)
        mem == MemPersistEventAndSnapshot(events, snapshots, created.event,
                                          created.aggregate)
        ddb == DdbPersistEventAndSnapshot(journalTable, snapshotTable, Options,
                                          created.event, created.aggregate)
    IN  /\ RepoWithinBounds
        /\ snapshots[aid] = Nil
        /\ events[aid] = <<>>
        /\ JournalRows(journalTable, id) = {}
        /\ CurrentRows(snapshotTable, id) = {}
        /\ events' = mem.events
        /\ snapshots' = mem.snapshots
        /\ journalTable' = ddb.journal
        /\ snapshotTable' = ddb.snapshot
        /\ memResult' = mem.result
        /\ ddbResult' = ddb.result
        /\ authoritative' =
              [authoritative EXCEPT
                  !["mem"][aid] = AuthoritativeAfter(@, created.aggregate,
                                                     mem.events # events),
                  !["ddb"][aid] = AuthoritativeAfter(@, created.aggregate,
                                                     ddb.journal # journalTable)]
        /\ lastCall' = RepoCall("Create", id, created, created)
        /\ UNCHANGED <<optVars, memUpdates, ddbUpdates, procVars>>

\* an account is loaded, renamed and stored
RepoUpdate(id, name, mode) ==
    LET aid == AsString(id)
        memFound == MemFindById(events, snapshots, id)
        ddbFound == DdbFindById(journalTable, snapshotTable, id)
        memRenamed == Rename(memFound, name)
        ddbRenamed == Rename(ddbFound, name)
        mem == IF memFound = Nil
               THEN MemOutcome(NotFound, events, snapshots)
               ELSE MemStore(events, snapshots, mode, memRenamed)
        ddb == IF ddbFound = Nil
               THEN DdbOutcome(NotFound, journalTable, snapshotTable)
               ELSE DdbStore(journalTable, snapshotTable, Options, mode, ddbRenamed)
    IN  /\ RepoWithinBounds
        /\ events' = mem.events
        /\ snapshots' = mem.snapshots
        /\ journalTable' = ddb.journal
        /\ snapshotTable' = ddb.snapshot
        /\ memResult' = mem.result
        /\ ddbResult' = ddb.result
        /\ authoritative' =
              [authoritative EXCEPT
                  !["mem"][aid] = IF memFound = Nil THEN @
                                  ELSE AuthoritativeAfter(@, memRenamed.aggregate,
                                                          mem.events # events),
                  !["ddb"][aid] = IF ddbFound = Nil THEN @
                                  ELSE AuthoritativeAfter(@, ddbRenamed.aggregate,
                                                          ddb.journal # journalTable)]
        /\ lastCall' = RepoCall(mode, id, IF memFound = Nil THEN Nil ELSE memRenamed,
                                 IF ddbFound = Nil THEN Nil ELSE ddbRenamed)
        /\ UNCHANGED <<optVars, memUpdates, ddbUpdates, procVars>>

NextRepo ==
    \/ \E id \in UserAccountIds, name \in Names : RepoCreate(id, name)
    \/ \E id \in UserAccountIds, name \in Names, mode \in StoreModes :
          RepoUpdate(id, name, mode)
    \/ TtlSweep

SpecRepo == Init /\ [][NextRepo]_vars

\* found, rebuilt from snapshot by replaying the events replayed, is the
\* authoritative state auth, and replayed holds each event after the
\* snapshot's sequence number once, in order
Reconstructs(found, replayed, snapshot, auth) ==
    /\ found.id = auth.id
    /\ found.name = auth.name
    /\ found.seqNr = auth.seqNr
    /\ found.version = auth.version
    /\ SeqNrsOf(replayed)
          = [i \in 1..(auth.seqNr - snapshot.seqNr) |-> snapshot.seqNr + i]

C14_SnapshotUpdateReadBack ==
    (lastCall # Nil /\ lastCall.op = "StoreEventAndSnapshot") =>
        /\ memResult = Ok =>
              LET supplied == lastCall.mem.aggregate
                  read == MemGetLatestSnapshotById(snapshots, lastCall.id)
              IN  /\ Occurrences(MemJournalEvents(lastCall.id), lastCall.mem.event) = 1
                  /\ read = WithVersion(supplied, supplied.version + 1)
                  /\ MemGetEventsByIdSinceSeqNr(events, lastCall.id, read.seqNr + 1) = <<>>
        /\ ddbResult = Ok =>
              LET supplied == lastCall.ddb.aggregate
                  read == DdbGetLatestSnapshotById(snapshotTable, lastCall.id)
              IN  /\ Occurrences(DdbJournalEvents(lastCall.id), lastCall.ddb.event) = 1
                  /\ read = WithVersion(supplied, supplied.version + 1)
                  /\ DdbGetEventsByIdSinceSeqNr(journalTable, lastCall.id,
                                                read.seqNr + 1) = <<>>

(***************************************************************************)
(* C23: for an aggregate-id under which no account was ever created,       *)
(* get_latest_snapshot returns the empty result and get_events_since an    *)
(* empty sequence, whatever the store holds for other aggregates, in both  *)
(* backends.  (Neither read writes to the store.)                          *)
(***************************************************************************)
C23_UnknownAggregateReadsEmpty ==
    \A id \in UserAccountIds :
        LET aid == AsString(id)
        IN  /\ authoritative["mem"][aid] = Nil =>
                  /\ MemGetLatestSnapshotById(snapshots, id) = Nil
                  /\ \A s \in 0..MaxWrites :
                        MemGetEventsByIdSinceSeqNr(events, id, s) = <<>>
            /\ authoritative["ddb"][aid] = Nil =>
                  /\ DdbGetLatestSnapshotById(snapshotTable, id) = Nil
                  /\ \A s \in 0..MaxWrites :
                        DdbGetEventsByIdSinceSeqNr(journalTable, id, s) = <<>>

\* one account was never created while another has two events, in both
\* backends, and the last call was an update of the one never created
C23_Witness ==
    \E id, other \in UserAccountIds :
        /\ authoritative["mem"][AsString(id)] = Nil
        /\ authoritative["ddb"][AsString(id)] = Nil
        /\ Len(MemJournalEvents(other)) >= 2
        /\ Cardinality(JournalRows(journalTable, other)) >= 2
        /\ lastCall # Nil
        /\ lastCall.id = id
        /\ memResult = NotFound
        /\ ddbResult = NotFound

(***************************************************************************)
(* The calls of the repository's users, and what a call does to each       *)
(* backend.                                                                *)
(***************************************************************************)
RepoCallInputs ==
    {[op |-> op, id |-> id, name |-> name] :
        op \in {"Create"} \cup StoreModes, id \in UserAccountIds, name \in Names}

MemRepoApply(call, ev, sn) ==
    IF call.op = "Create"
    THEN LET created == NewUserAccount(call.id, call.name)
         IN  MemPersistEventAndSnapshot(ev, sn, created.event, created.aggregate)
    ELSE LET found == MemFindById(ev, sn, call.id)
         IN  IF found = Nil
             THEN MemOutcome(NotFound, ev, sn)
             ELSE MemStore(ev, sn, call.op, Rename(found, call.name))

DdbRepoApply(call, journal, snapshot, opts) ==
    IF call.op = "Create"
    THEN LET created == NewUserAccount(call.id, call.name)
         IN  DdbPersistEventAndSnapshot(journal, snapshot, opts, created.event,
                                        created.aggregate)
    ELSE LET found == DdbFindById(journal, snapshot, call.id)
         IN  IF found = Nil
             THEN DdbOutcome(NotFound, journal, snapshot)
             ELSE DdbStore(journal, snapshot, opts, call.op, Rename(found, call.name))

\* the rows of a table that belong to an aggregate
RowsOf(table, id) == {row \in table : row.aid = AsString(id)}

\* call a leaves what the stores hold for every other aggregate as it is
LeavesOthers(a) ==
    LET mem == MemRepoApply(a, events, snapshots)
        ddb == DdbRepoApply(a, journalTable, snapshotTable, Options)
    IN  \A id \in UserAccountIds \ {a.id} :
            /\ mem.events[AsString(id)] = events[AsString(id)]
            /\ mem.snapshots[AsString(id)] = snapshots[AsString(id)]
            /\ RowsOf(ddb.journal, id) = RowsOf(journalTable, id)
            /\ RowsOf(ddb.snapshot, id) = RowsOf(snapshotTable, id)

\* calls a and b, made one after the other on the stored state, return the
\* same and leave the same state in either order
Commute(a, b) ==
    LET memA == MemRepoApply(a, events, snapshots)
        memAB == MemRepoApply(b, memA.events, memA.snapshots)
        memB == MemRepoApply(b, events, snapshots)
        memBA == MemRepoApply(a, memB.events, memB.snapshots)
        ddbA == DdbRepoApply(a, journalTable, snapshotTable, Options)
        ddbAB == DdbRepoApply(b, ddbA.journal, ddbA.snapshot, Options)
        ddbB == DdbRepoApply(b, journalTable, snapshotTable, Options)
        ddbBA == DdbRepoApply(a, ddbB.journal, ddbB.snapshot, Options)
    IN  /\ memA.result = memBA.result
        /\ memB.result = memAB.result
        /\ memAB.events = memBA.events
        /\ memAB.snapshots = memBA.snapshots
        /\ ddbA.result = ddbBA.result
        /\ ddbB.result = ddbAB.result
        /\ ddbAB.journal = ddbBA.journal
        /\ ddbAB.snapshot = ddbBA.snapshot

(***************************************************************************)
(* C24: a write for aggregate A, with its retention pass, leaves the       *)
(* journal entries, the current state, the version and the historical rows *)
(* of every other aggregate as they are; and from every state a write on A *)
(* and a write on another aggregate B return the same and leave the same   *)
(* store in either order, in both backends.                                *)
(***************************************************************************)
C24_WritesOnOtherAggregatesCommute ==
    /\ \A a \in RepoCallInputs : LeavesOthers(a)
    /\ \A a, b \in RepoCallInputs : a.id # b.id => Commute(a, b)

\* an update of one account has succeeded, a retention pass included, while
\* the other account has its current state and a historical row
C24_Witness ==
    /\ lastCall # Nil
    /\ lastCall.op = "StoreEventAndSnapshot"
    /\ memResult = Ok
    /\ ddbResult = Ok
    /\ keepSnapshot
    /\ \E id \in UserAccountIds \ {lastCall.id} :
          /\ snapshots[AsString(id)] # Nil
          /\ CurrentRows(snapshotTable, id) # {}
          /\ HistoricalRows(snapshotTable, id) # {}

(***************************************************************************)
(* The calls of the store with any event, expected version and aggregate,  *)
(* and what a call does to each backend.                                   *)
(***************************************************************************)
StoreCallInputs ==
    {[op |-> "PersistEvent", event |-> e, version |-> v, aggregate |-> Nil] :
        e \in EventInputs, v \in Versions}
    \cup
    UNION {{[op |-> "PersistEventAndSnapshot", event |-> e, version |-> a.version,
             aggregate |-> a] : a \in AggregateInputs(e)} : e \in EventInputs}

MemStoreApply(call, ev, sn) ==
    IF call.op = "PersistEvent"
    THEN MemPersistEvent(ev, sn, call.event, call.version)
    ELSE MemPersistEventAndSnapshot(ev, sn, call.event, call.aggregate)

DdbStoreApply(call, journal, snapshot, opts) ==
    IF call.op = "PersistEvent"
    THEN DdbPersistEvent(journal, snapshot, opts, call.event, call.version)
    ELSE DdbPersistEventAndSnapshot(journal, snapshot, opts, call.event, call.aggregate)

\* list is longer or the beginning of it
IsPrefix(list, longer) ==
    /\ Len(list) <= Len(longer)
    /\ \A i \in DOMAIN list : longer[i] = list[i]

(***************************************************************************)
(* C28: an event that is stored stays stored as it is: no step (a call of  *)
(* the repository with its retention pass, with deletes or with a TTL, or  *)
(* a sweep of the backend) and no call of the store with any event,        *)
(* expected version and aggregate, committed or failed, changes or removes *)
(* a journal entry; the list of an aggregate's events in memory and the    *)
(* set of journal rows in DynamoDB only grow.                              *)
(***************************************************************************)
C28_JournalOnlyGrows ==
    [][/\ \A a \in AggregateIdStrings : IsPrefix(events[a], events'[a])
       /\ journalTable \subseteq journalTable'
       /\ \A call \in StoreCallInputs :
             LET mem == MemStoreApply(call, events, snapshots)
                 ddb == DdbStoreApply(call, journalTable, snapshotTable, Options)
             IN  /\ \A a \in AggregateIdStrings : IsPrefix(events[a], mem.events[a])
                 /\ journalTable \subseteq ddb.journal
    ]_vars

\* the third event of an account is stored by an update whose pass has run
\* with a TTL, in both backends
C28_Witness ==
    /\ lastCall # Nil
    /\ lastCall.op = "StoreEventAndSnapshot"
    /\ memResult = Ok
    /\ ddbResult = Ok
    /\ keepSnapshot
    /\ DeleteTtlIsFinite(Options)
    /\ Len(events[AsString(lastCall.id)]) = 3
    /\ Cardinality(JournalRows(journalTable, lastCall.id)) = 3

(***************************************************************************)
(* EventStoreOnMemory under concurrent callers.  The store holds no lock,  *)
(* so the statements of PersistEvent and PersistEventAndSnapshot of two    *)
(* callers interleave; each step below is one statement that reads or      *)
(* writes one of the two maps.  pc[w] is the line the caller w is about to *)
(* execute, local[w] its call with the values it holds.                    *)
(***************************************************************************)
Fatal == "Fatal"

OtherWriter(w) == CHOOSE o \in Writers : o # w

MemCall(op, event, version, aggregate) ==
    [op |-> op, event |-> event, version |-> version, aggregate |-> aggregate,
     newVersion |-> 0, snapshot |-> Nil, result |-> NoResult]

\* history: the call of w replaces the one w made before; the finished call
\* of the other caller is kept only if it is still running, so that two
\* calls on record have run at the same time
Begin(w, call, at) ==
    /\ pc[w] = "idle"
    /\ pc' = [pc EXCEPT ![w] = at]
    /\ local' = [o \in Writers |->
                    IF o = w THEN call
                    ELSE IF pc[o] = "idle" THEN Nil
                    ELSE local[o]]

\* lines 41-49: the panic on a creation, the nil snapshot, the version check
MemBeginPersistEvent(w, event, version) ==
    LET stored == snapshots[AsString(event.aggregateId)]
        call == MemCall("PersistEvent", event, version, Nil)
    IN  /\ StoredEvents(events, AggregateIdStrings) < MaxEvents
        /\ IF IsCreated(event) \/ stored = Nil
           THEN Begin(w, [call EXCEPT !.result = Panic], "idle")
           ELSE IF MemVersionMismatch(stored, version)
           THEN Begin(w, [call EXCEPT !.result = OptimisticLockError], "idle")
           ELSE Begin(w, call, "line50")
        /\ UNCHANGED <<memVars, ddbVars, optVars, callVars, histVars>>

\* lines 59-66: a creation takes initialVersion; an update checks the version
MemBeginPersistEventAndSnapshot(w, event, aggregate) ==
    LET stored == snapshots[AsString(event.aggregateId)]
        call == MemCall("PersistEventAndSnapshot", event, aggregate.version, aggregate)
    IN  /\ StoredEvents(events, AggregateIdStrings) < MaxEvents
        /\ IF IsCreated(event)
           THEN Begin(w, [call EXCEPT !.newVersion = initialVersion], "line70")
           ELSE IF stored = Nil
           THEN Begin(w, [call EXCEPT !.result = Panic], "idle")
           ELSE IF MemVersionMismatch(stored, aggregate.version)
           THEN Begin(w, [call EXCEPT !.result = OptimisticLockError], "idle")
           ELSE Begin(w, call, "line67")
        /\ UNCHANGED <<memVars, ddbVars, optVars, callVars, histVars>>

\* lines 50 and 67: newVersion := es.snapshots[aggregateId].GetVersion() + 1
MemReadNewVersion(w) ==
    /\ pc[w] \in {"line50", "line67"}
    /\ local' = [local EXCEPT
                    ![w].newVersion =
                        MemNewVersion(snapshots[AsString(local[w].event.aggregateId)])]
    /\ pc' = [pc EXCEPT ![w] = IF pc[w] = "line50" THEN "line51" ELSE "line70"]
    /\ UNCHANGED <<memVars, ddbVars, optVars, callVars, histVars>>

\* lines 51 and 70: es.events[aggregateId] = append(es.events[aggregateId], event)
MemAppendEvent(w) ==
    /\ pc[w] \in {"line51", "line70"}
    /\ events' = [events EXCEPT ![AsString(local[w].event.aggregateId)] =
                                   Append(@, local[w].event)]
    /\ pc' = [pc EXCEPT ![w] = IF pc[w] = "line51" THEN "line52" ELSE "line71"]
    /\ UNCHANGED <<snapshots, local, ddbVars, optVars, callVars, histVars>>

\* line 52: snapshot := es.snapshots[aggregateId]
MemReadSnapshot(w) ==
    /\ pc[w] = "line52"
    /\ local' = [local EXCEPT
                    ![w].snapshot = snapshots[AsString(local[w].event.aggregateId)]]
    /\ pc' = [pc EXCEPT ![w] = "line53"]
    /\ UNCHANGED <<memVars, ddbVars, optVars, callVars, histVars>>

\* lines 53-56 and 71-72: the snapshot with the new version is stored and
\* the call returns nil
MemWriteSnapshot(w) ==
    /\ pc[w] \in {"line53", "line71"}
    /\ snapshots' = [snapshots EXCEPT ![AsString(local[w].event.aggregateId)] =
                        WithVersion(IF pc[w] = "line53" THEN local[w].snapshot
                                    ELSE local[w].aggregate,
                                    local[w].newVersion)]
    /\ local' = [local EXCEPT ![w].result = Ok]
    /\ pc' = [pc EXCEPT ![w] = "idle"]
    /\ UNCHANGED <<events, ddbVars, optVars, callVars, histVars>>

\* the lines that write the map events, and those that read or write the
\* map snapshots
EventsWriteLines == {"line51", "line70"}
SnapshotsReadLines == {"line50", "line67", "line52"}
SnapshotsWriteLines == {"line53", "line71"}

\* two callers inside the same map at once, one of them writing it: the
\* runtime may detect the race and end the process
ConcurrentMapAccess ==
    /\ \E w \in Writers :
          \/ pc[w] \in EventsWriteLines /\ pc[OtherWriter(w)] \in EventsWriteLines
          \/ /\ pc[w] \in SnapshotsWriteLines
             /\ pc[OtherWriter(w)] \in SnapshotsReadLines \cup SnapshotsWriteLines
    /\ pc' = [w \in Writers |-> "crashed"]
    /\ local' = [w \in Writers |-> [local[w] EXCEPT !.result = Fatal]]
    /\ UNCHANGED <<memVars, ddbVars, optVars, callVars, histVars>>

NextMemConc ==
    \/ \E w \in Writers, event \in EventInputs, version \in Versions :
          MemBeginPersistEvent(w, event, version)
    \/ \E w \in Writers, event \in EventInputs :
          \E aggregate \in AggregateInputs(event) :
              MemBeginPersistEventAndSnapshot(w, event, aggregate)
    \/ \E w \in Writers : MemReadNewVersion(w)
    \/ \E w \in Writers : MemAppendEvent(w)
    \/ \E w \in Writers : MemReadSnapshot(w)
    \/ \E w \in Writers : MemWriteSnapshot(w)
    \/ ConcurrentMapAccess

SpecMemConc == Init /\ [][NextMemConc]_vars

\* the call of w on record is an update that has returned
ReturnedUpdate(w) ==
    /\ pc[w] = "idle"
    /\ local[w] # Nil
    /\ ~IsCreated(local[w].event)

(***************************************************************************)
(* C2: the mutating operations of the in-memory store are serialized: two  *)
(* calls that run at the same time with the same expected version on the   *)
(* same aggregate never both succeed.                                      *)
(***************************************************************************)
C2_MemoryWritersSerialized ==
    ~ /\ ReturnedUpdate("w1")
      /\ ReturnedUpdate("w2")
      /\ local["w1"].event.aggregateId = local["w2"].event.aggregateId
      /\ local["w1"].version = local["w2"].version
      /\ local["w1"].result = Ok
      /\ local["w2"].result = Ok

(***************************************************************************)
(* EventStoreOnDynamoDB under concurrent callers of the repository.  Each  *)
(* step is one request to the backend: the two queries of FindById, the    *)
(* transactional write, and the requests of the retention pass.            *)
(***************************************************************************)
DdbCall(op, mode, id, name) ==
    [op |-> op, mode |-> mode, id |-> id, name |-> name, snapshot |-> Nil,
     event |-> Nil, aggregate |-> Nil, version |-> 0, result |-> NoResult,
     journalBefore |-> 0, snapshotCount |-> 0, keys |-> <<>>]

DdbWithinBounds == Cardinality(journalTable) < MaxEvents

Return(w, result) ==
    /\ pc' = [pc EXCEPT ![w] = "idle"]
    /\ local' = [local EXCEPT ![w].result = result]

\* NewUserAccount and StoreEventAndSnapshot: createEventAndSnapshot is one
\* transactional write, and no retention pass follows it
DdbCreateCall(w, id, name) ==
    LET created == NewUserAccount(id, name)
        ddb == DdbPersistEventAndSnapshot(journalTable, snapshotTable, Options,
                                          created.event, created.aggregate)
    IN  /\ Begin(w, [DdbCall("Create", "StoreEventAndSnapshot", id, name) EXCEPT
                        !.event = created.event,
                        !.aggregate = created.aggregate,
                        !.version = created.aggregate.version,
                        !.result = ddb.result], "idle")
        /\ journalTable' = ddb.journal
        /\ snapshotTable' = ddb.snapshot
        /\ UNCHANGED <<memVars, optVars, callVars, histVars>>

DdbCreate(w, id, name) == DdbWithinBounds /\ DdbCreateCall(w, id, name)

\* FindById, lines 33-39: GetLatestSnapshotById
DdbLoadCall(w, id, name, mode) ==
    LET result == DdbGetLatestSnapshotById(snapshotTable, id)
        call == [DdbCall("Update", mode, id, name) EXCEPT
                    !.snapshot = result,
                    !.journalBefore = Cardinality(JournalRows(journalTable, id))]
    IN  /\ IF result = Nil
           THEN Begin(w, [call EXCEPT !.result = NotFound], "idle")
           ELSE Begin(w, call, "loaded")
        /\ UNCHANGED <<memVars, ddbVars, optVars, callVars, histVars>>

DdbLoad(w, id, name, mode) == DdbWithinBounds /\ DdbLoadCall(w, id, name, mode)

\* FindById, lines 41-45: GetEventsByIdSinceSeqNr and the replay; then Rename
DdbReplay(w) ==
    LET found == replayUserAccount(
                     DdbGetEventsByIdSinceSeqNr(journalTable, local[w].id,
                         FirstSeqNrToReplay(local[w].snapshot)),
                     local[w].snapshot)
        renamed == Rename(found, local[w].name)
    IN  /\ pc[w] = "loaded"
        /\ local' = [local EXCEPT ![w].event = renamed.event,
                                  ![w].aggregate = renamed.aggregate,
                                  ![w].version = renamed.aggregate.version]
        /\ pc' = [pc EXCEPT ![w] = "renamed"]
        /\ UNCHANGED <<memVars, ddbVars, optVars, callVars, histVars>>

\* StoreEvent or StoreEventAndSnapshot: updateEventAndSnapshotOpt, one
\* transactional write; the retention pass follows a committed write
DdbWrite(w) ==
    LET written == updateEventAndSnapshotOpt(journalTable, snapshotTable, Options,
                       local[w].event, local[w].version,
                       IF local[w].mode = "StoreEvent" THEN Nil ELSE local[w].aggregate)
    IN  /\ pc[w] = "renamed"
        /\ journalTable' = written.journal
        /\ snapshotTable' = written.snapshot
        /\ IF written.result = Ok /\ PurgeIsEnabled(Options)
           THEN pc' = [pc EXCEPT ![w] = "written"] /\ UNCHANGED local
           ELSE Return(w, written.result)
        /\ UNCHANGED <<memVars, optVars, callVars, histVars>>

\* the retention pass: getSnapshotCount, the decrement and the excess
DdbPurgeCount(w) ==
    LET snapshotCount == getSnapshotCount(snapshotTable, local[w].id) - 1
    IN  /\ pc[w] = "written"
        /\ IF ExcessIsPositive(snapshotCount, keepSnapshotCount)
           THEN /\ pc' = [pc EXCEPT ![w] = "counted"]
                /\ local' = [local EXCEPT ![w].snapshotCount = snapshotCount]
           ELSE Return(w, Ok)
        /\ UNCHANGED <<memVars, ddbVars, optVars, callVars, histVars>>

\* the retention pass: getLastSnapshotKeys
DdbPurgeKeys(w) ==
    LET q == getLastSnapshotKeys(snapshotTable, Options, local[w].id,
                 ExcessAsLimit(local[w].snapshotCount, keepSnapshotCount))
    IN  /\ pc[w] = "counted"
        /\ IF q.err # NoError
           THEN Return(w, IOError)
           ELSE /\ pc' = [pc EXCEPT ![w] = "selected"]
                /\ local' = [local EXCEPT ![w].keys = q.keys]
        /\ UNCHANGED <<memVars, ddbVars, optVars, callVars, histVars>>

\* the retention pass: the BatchWriteItem of the deletes, or one UpdateItem
\* of the ttl per step until no key is left
DdbPurgeApply(w) ==
    /\ pc[w] = "selected"
    /\ IF DeleteTtlIsFinite(Options)
       THEN IF local[w].keys = <<>>
            THEN Return(w, Ok) /\ UNCHANGED snapshotTable
            ELSE /\ snapshotTable' = UpdateItemTtl(Head(local[w].keys),
                                                   ExpiryTime(Options), snapshotTable)
                 /\ local' = [local EXCEPT ![w].keys = Tail(@)]
                 /\ UNCHANGED pc
       ELSE LET d == BatchDelete(local[w].keys, snapshotTable)
            IN  /\ snapshotTable' = d.snapshot
                /\ Return(w, IF d.err # NoError THEN IOError ELSE Ok)
    /\ UNCHANGED <<memVars, journalTable, optVars, callVars, histVars>>

NextDdbConc ==
    \/ \E w \in Writers, id \in UserAccountIds, name \in Names : DdbCreate(w, id, name)
    \/ \E w \in Writers, id \in UserAccountIds, name \in Names, mode \in StoreModes :
          DdbLoad(w, id, name, mode)
    \/ \E w \in Writers : DdbReplay(w)
    \/ \E w \in Writers : DdbWrite(w)
    \/ \E w \in Writers : DdbPurgeCount(w)
    \/ \E w \in Writers : DdbPurgeKeys(w)
    \/ \E w \in Writers : DdbPurgeApply(w)
    \/ TtlSweep

SpecDdbConc == InitRetention /\ [][NextDdbConc]_vars

\* the call of w on record is an update that went as far as its write and
\* has returned
ReturnedWrite(w) ==
    /\ pc[w] = "idle"
    /\ local[w] # Nil
    /\ local[w].op = "Update"
    /\ local[w].result # NotFound

(***************************************************************************)
(* C1: persistent backend: of two updates of the same aggregate that run   *)
(* at the same time with the same expected version exactly one succeeds    *)
(* and the other returns OptimisticLockError; the journal has gained       *)
(* exactly one row and the current-state version has advanced by 1.        *)
(***************************************************************************)
C1_ExactlyOneWriterSucceeds ==
    ( /\ ReturnedWrite("w1")
      /\ ReturnedWrite("w2")
      /\ local["w1"].id = local["w2"].id
      /\ local["w1"].version = local["w2"].version )
    => /\ {local["w1"].result, local["w2"].result} = {Ok, OptimisticLockError}
       /\ Cardinality(JournalRows(journalTable, local["w1"].id))
             = local["w1"].journalBefore + 1
       /\ \A row \in CurrentRows(snapshotTable, local["w1"].id) :
             row.version = local["w1"].version + 1

\* the version of the current-state row of an aggregate, 0 without a row
CurrentVersion(snapshot, id) ==
    IF CurrentRows(snapshot, id) = {}
    THEN 0
    ELSE (CHOOSE row \in CurrentRows(snapshot, id) : TRUE).version

(***************************************************************************)
(* C6: persistent backend: the journal row of an event and the advance of  *)
(* the current-state version become visible together.  Every step leaves   *)
(* the journal rows and the version of an aggregate as they are, or adds   *)
(* one journal row and advances the version by 1; a write that returns     *)
(* OptimisticLockError changes neither table.                              *)
(***************************************************************************)
C6_WriteIsAtomic ==
    [][/\ \A id \in UserAccountIds :
             LET rows == Cardinality(JournalRows(journalTable, id))
                 rowsAfter == Cardinality(JournalRows(journalTable', id))
                 version == CurrentVersion(snapshotTable, id)
                 versionAfter == CurrentVersion(snapshotTable', id)
             IN  \/ rowsAfter = rows /\ versionAfter = version
                 \/ rowsAfter = rows + 1 /\ versionAfter = version + 1
       /\ \A w \in Writers :
             (pc[w] = "renamed" /\ local'[w].result = OptimisticLockError)
                => UNCHANGED ddbVars]_vars

\* an update has committed while the other caller's update was cancelled
C6_Witness ==
    \E w \in Writers :
        /\ ReturnedWrite(w)
        /\ local[w].result = Ok
        /\ CurrentVersion(snapshotTable, local[w].id) = 2
        /\ Cardinality(JournalRows(journalTable, local[w].id)) = 2
        /\ ReturnedWrite(OtherWriter(w))
        /\ local[OtherWriter(w)].id = local[w].id
        /\ local[OtherWriter(w)].result = OptimisticLockError


(***************************************************************************)
(* C13: in every reachable state, with retention passes under way, rows    *)
(* swept for their ttl and two callers writing, every aggregate that has   *)
(* been created has exactly one current-state row (the row whose sort key  *)
(* carries sequence number 0), the ttl of that row is 0, and no retention  *)
(* pass holds its key among the keys it has selected as victims.           *)
(***************************************************************************)
C13_OneCurrentRow ==
    /\ \A id \in UserAccountIds :
          JournalRows(journalTable, id) # {} =>
              \E row \in snapshotTable :
                  /\ CurrentRows(snapshotTable, id) = {row}
                  /\ row.aid = AsString(id)
                  /\ row.seq_nr = 0
                  /\ row.ttl = 0
    /\ \A w \in Writers, id \in UserAccountIds :
          (local[w] # Nil /\ pc[w] = "selected") =>
              \A row \in CurrentRows(snapshotTable, id) :
                  KeyOf(row) \notin KeySet(local[w].keys)

\* a retention pass has selected its victims while the other caller is in
\* the middle of a call on the same aggregate
C13_Witness ==
    \E w \in Writers :
        /\ pc[w] = "selected"
        /\ local[w].keys # <<>>
        /\ pc[OtherWriter(w)] # "idle"
        /\ local[OtherWriter(w)].id = local[w].id
        /\ CurrentRows(snapshotTable, local[w].id) # {}

(***************************************************************************)
(* C19: a retention pass that finds no more historical rows than the keep  *)
(* count (N <= K, N < K included) selects no victim, deletes and marks     *)
(* nothing, and the persist call returns success.                          *)
(***************************************************************************)
C19_NoExcessNoVictims ==
    [][\A w \in Writers :
          (pc[w] = "written" /\ pc'[w] # "written"
             /\ Cardinality(HistoricalRows(snapshotTable, local[w].id))
                   <= keepSnapshotCount)
          => /\ pc'[w] = "idle"
             /\ local'[w].result = Ok
             /\ snapshotTable' = snapshotTable]_vars

(***************************************************************************)
(* C20: a retention pass starts only in a store with keep_snapshot = true  *)
(* and keep_snapshot_count > 0, and there once after every update that has *)
(* committed: the pass starts in the step of the committing write and in   *)
(* no other step, so never after a genesis and never after a write that    *)
(* failed.                                                                 *)
(***************************************************************************)
C20_PassAfterCommittedUpdate ==
    [][\A w \in Writers :
          LET committed == /\ pc[w] = "renamed"
                           /\ pc'[w] # "renamed"
                           /\ journalTable' # journalTable
          IN  /\ (pc'[w] = "written" /\ pc[w] # "written")
                    => /\ committed
                       /\ local[w].op = "Update"
                       /\ keepSnapshot
                       /\ keepSnapshotCount > 0
              /\ (committed /\ keepSnapshot /\ keepSnapshotCount > 0)
                    => pc'[w] = "written"
              /\ (pc'[w] = "counted" /\ pc[w] # "counted") => pc[w] = "written"
              /\ (pc'[w] = "selected" /\ pc[w] # "selected") => pc[w] = "counted"]_vars

\* the update of a caller has committed and its retention pass has begun,
\* while the write of the other caller has failed
C20_Witness ==
    \E w \in Writers :
        /\ pc[w] = "written"
        /\ pc[OtherWriter(w)] = "idle"
        /\ local[OtherWriter(w)] # Nil
        /\ local[OtherWriter(w)].op = "Update"
        /\ local[OtherWriter(w)].result = OptimisticLockError

(***************************************************************************)
(* The retention pass over a long history: one account whose every update  *)
(* stores a snapshot (FindById, Rename, StoreEventAndSnapshot), each step   *)
(* one request to the backend, with the backend's sweeper removing rows    *)
(* whose ttl is set.  SpecRetention has one caller, whose calls follow one *)
(* another; SpecRetentionConc has the two callers and a shorter history.   *)
(***************************************************************************)
\* the number of events (the genesis and the updates) the account is given
\* under SpecRetention
MaxSnapshotWrites == 6

\* the same under SpecRetentionConc
MaxConcurrentSnapshotWrites == 4

RetentionAccount == newUserAccountId("1")

RetentionStep(writers, maxWrites) ==
    \/ \E w \in writers :
          /\ Cardinality(journalTable) < maxWrites
          /\ DdbCreateCall(w, RetentionAccount, "test")
    \/ \E w \in writers :
          /\ Cardinality(journalTable) < maxWrites
          /\ DdbLoadCall(w, RetentionAccount, "test2", "StoreEventAndSnapshot")
    \/ \E w \in writers : DdbReplay(w)
    \/ \E w \in writers : DdbWrite(w)
    \/ \E w \in writers : DdbPurgeCount(w)
    \/ \E w \in writers : DdbPurgeKeys(w)
    \/ \E w \in writers : DdbPurgeApply(w)
    \/ TtlSweep

NextRetention == RetentionStep({"w1"}, MaxSnapshotWrites)

SpecRetention == InitRetention /\ [][NextRetention]_vars

NextRetentionConc == RetentionStep(Writers, MaxConcurrentSnapshotWrites)

SpecRetentionConc == InitRetention /\ [][NextRetentionConc]_vars

\* the historical rows of an aggregate that carry no ttl
UnmarkedRows(snapshot, aggregateId) ==
    {row \in HistoricalRows(snapshot, aggregateId) : row.ttl = 0}

\* the keys of the k historical rows of an aggregate with the largest seq_nr
NewestKeys(snapshot, aggregateId, k) ==
    LET newest == FirstRows(SortDescending(HistoricalRows(snapshot, aggregateId)), k)
    IN  {KeyOf(newest[i]) : i \in DOMAIN newest}

AllIdle == \A w \in Writers : pc[w] = "idle"

(***************************************************************************)
(* C16: hard-delete retention (keep_snapshot, keep count K > 0, no TTL):   *)
(* after the genesis and any number of snapshot-persisting updates made    *)
(* one after the other, each with its pass completed, the aggregate has at *)
(* most K historical rows; in particular after M > K + 1 updates.          *)
(***************************************************************************)
C16_HardDeleteKeepsAtMostK ==
    (keepSnapshot /\ keepSnapshotCount > 0 /\ ~DeleteTtlIsFinite(Options) /\ AllIdle)
        => Cardinality(HistoricalRows(snapshotTable, RetentionAccount))
              <= keepSnapshotCount

\* K = 2: the genesis and four snapshot-persisting updates have returned
\* success and two historical rows are left
C16_Witness ==
    /\ keepSnapshot
    /\ keepSnapshotCount = 2
    /\ ~DeleteTtlIsFinite(Options)
    /\ AllIdle
    /\ local["w1"] # Nil
    /\ local["w1"].op = "Update"
    /\ local["w1"].result = Ok
    /\ Cardinality(JournalRows(journalTable, RetentionAccount)) = 5
    /\ Cardinality(HistoricalRows(snapshotTable, RetentionAccount)) = 2

(***************************************************************************)
(* C17: TTL retention (keep_snapshot, keep count K > 0, a finite TTL):     *)
(* after the genesis and snapshot-persisting updates made one after the    *)
(* other, each with its pass completed, at most K historical rows carry    *)
(* ttl = 0, so every row in excess of K is marked; a pass selects only     *)
(* rows that are not marked yet; and the store removes no row: a row that  *)
(* disappears was marked, and is removed by the backend's sweeper.         *)
(***************************************************************************)
C17_TtlMarksExcess ==
    [][(keepSnapshot /\ keepSnapshotCount > 0 /\ DeleteTtlIsFinite(Options)) =>
         /\ AllIdle' =>
               Cardinality(UnmarkedRows(snapshotTable', RetentionAccount))
                  <= keepSnapshotCount
         /\ \A w \in Writers :
               (pc[w] = "counted" /\ pc'[w] = "selected") =>
                   \A i \in DOMAIN local'[w].keys :
                       \E row \in UnmarkedRows(snapshotTable, RetentionAccount) :
                           KeyOf(row) = local'[w].keys[i]
         /\ \A row \in snapshotTable :
               (\A left \in snapshotTable' : KeyOf(left) # KeyOf(row)) => row.ttl # 0]_vars

\* K = 2: the genesis and five snapshot-persisting updates have returned,
\* no row has been swept, and at least three historical rows are marked
C17_Witness ==
    /\ keepSnapshot
    /\ keepSnapshotCount = 2
    /\ DeleteTtlIsFinite(Options)
    /\ AllIdle
    /\ local["w1"] # Nil
    /\ local["w1"].result = Ok
    /\ Cardinality(JournalRows(journalTable, RetentionAccount)) = 6
    /\ Cardinality(HistoricalRows(snapshotTable, RetentionAccount)) = 6
    /\ Cardinality(HistoricalRows(snapshotTable, RetentionAccount)
                      \ UnmarkedRows(snapshotTable, RetentionAccount)) >= 3

(***************************************************************************)
(* C18: a pass that finds N > K historical rows and evicts N - K of them   *)
(* selects none of the K rows with the largest seq_nr: the newest K rows   *)
(* are neither deleted nor marked by that pass.                            *)
(***************************************************************************)
C18_NewestRowsKept ==
    [][\A w \in Writers :
          (pc[w] = "counted" /\ pc'[w] = "selected") =>
              KeySet(local'[w].keys)
                 \cap NewestKeys(snapshotTable, local[w].id, keepSnapshotCount) = {}]_vars

(***************************************************************************)
(* EventStoreOnDynamoDB with a caller that cancels its context and a       *)
(* backend that fails requests.  One caller works through the repository;  *)
(* each step is one request to the backend, sent with the context the code *)
(* hands to the client.                                                    *)
(***************************************************************************)
MaxFaultWrites == 3

\* what the backend can do to a transactional write besides evaluating it:
\* fail the request (throttling, network, a cancelled context), or cancel
\* the transaction with the reason "TransactionConflict" on one item
TransactFaults == {"None", "RequestError", "TransactionConflict"}

\* the item a conflict is reported on; every transaction has two items
FaultPositions == 1..2

\* the faults of one request: none, a failed request, a conflict on an item
FaultInputs ==
    {[fault |-> "None", at |-> 1], [fault |-> "RequestError", at |-> 1]}
    \cup {[fault |-> "TransactionConflict", at |-> i] : i \in FaultPositions}

\* TransactWriteItems under a fault.  A cancelled transaction reports one
\* reason per item: the conflict on the item hit, and for every other item
\* whether its condition held
FaultyTransactWriteItems(fault, at, items, journal, snapshot) ==
    IF fault = "RequestError"
    THEN [err |-> "RequestError", reasons |-> <<>>,
          journal |-> journal, snapshot |-> snapshot]
    ELSE IF fault = "TransactionConflict" /\ ~SameItemTwice(items)
    THEN [err |-> "TransactionCanceledException",
          reasons |-> [i \in DOMAIN items |->
                          IF i = at THEN "TransactionConflict"
                          ELSE CancellationReasons(items, journal, snapshot)[i]],
          journal |-> journal, snapshot |-> snapshot]
    ELSE TransactWriteItems(items, journal, snapshot)

\* the context of a request that is not the caller's
Background == "context.Background()"

\* the record of a call: that of DdbCall, and
\*   cancelled      the caller has cancelled the context of the call
\*   sent           the requests carried out after the cancellation, each
\*                  with the context it was sent with
\*   writeResult    what the transactional write returned
\*   reasons, err   what the backend answered to the transactional write
\*   excessBefore   more than keepSnapshotCount rows were subject to the
\*                  pass when the call began
FaultCall(op, mode, id, name) ==
    [cancelled |-> FALSE, sent |-> {}, writeResult |-> NoResult,
     reasons |-> <<>>, err |-> NoError, excessBefore |-> FALSE]
    @@ DdbCall(op, mode, id, name)

FaultWriters == {"w1"}

FaultWithinBounds == Cardinality(journalTable) < MaxFaultWrites

\* the rows a retention pass has still to deal with: the historical rows,
\* or with a TTL those without one
RowsSubjectToPass(snapshot, id) ==
    IF DeleteTtlIsFinite(Options)
    THEN {row \in HistoricalRows(snapshot, id) : row.ttl = 0}
    ELSE HistoricalRows(snapshot, id)

\* the handler is called: CreateUserAccountHandler or UpdateUserAccountHandler
FaultStart(w, op, mode, id, name) ==
    /\ FaultWithinBounds
    /\ op = "Create" => mode = "StoreEventAndSnapshot"
    /\ Begin(w, [FaultCall(op, mode, id, name) EXCEPT
                    !.journalBefore = Cardinality(JournalRows(journalTable, id)),
                    !.excessBefore =
                        Cardinality(RowsSubjectToPass(snapshotTable, id))
                            > keepSnapshotCount],
             "called")
    /\ UNCHANGED <<memVars, ddbVars, optVars, callVars, histVars>>

\* the caller cancels the context of its running call
FaultCancel(w) ==
    /\ pc[w] # "idle"
    /\ ~local[w].cancelled
    /\ local' = [local EXCEPT ![w].cancelled = TRUE]
    /\ UNCHANGED <<memVars, ddbVars, optVars, callVars, histVars, pc>>

\* a request carried out with context c is on record if the caller had
\* cancelled by then
Sent(call, request, c) ==
    IF call.cancelled THEN call.sent \cup {<<request, c>>} ELSE call.sent

FaultReturn(w, call, result) ==
    /\ pc' = [pc EXCEPT ![w] = "idle"]
    /\ local' = [local EXCEPT ![w] = [call EXCEPT !.result = result]]

\* a request sent with the caller's context is refused once it is cancelled
Refused(w) == local[w].cancelled

\* createEventAndSnapshot, line 557: TransactWriteItems(ctx, ...)
FaultCreate(w, fault, at) ==
    LET created == NewUserAccount(local[w].id, local[w].name)
        out == FaultyTransactWriteItems(
                   IF Refused(w) THEN "RequestError" ELSE fault, at,
                   CreateTransactItems(Options, created.event, created.aggregate),
                   journalTable, snapshotTable)
    IN  /\ pc[w] = "called"
        /\ local[w].op = "Create"
        /\ journalTable' = out.journal
        /\ snapshotTable' = out.snapshot
        /\ FaultReturn(w, [local[w] EXCEPT !.event = created.event,
                                           !.aggregate = created.aggregate,
                                           !.version = created.aggregate.version,
                                           !.err = out.err,
                                           !.reasons = out.reasons,
                                           !.writeResult = TransactError(out)],
                       TransactError(out))
        /\ UNCHANGED <<memVars, optVars, callVars, histVars>>

\* FindById, line 33: GetLatestSnapshotById, Query(ctx, ...) at line 231
FaultLoad(w) ==
    LET result == DdbGetLatestSnapshotById(snapshotTable, local[w].id)
    IN  /\ pc[w] = "called"
        /\ local[w].op = "Update"
        /\ IF Refused(w) THEN FaultReturn(w, local[w], IOError)
           ELSE IF result = Nil THEN FaultReturn(w, local[w], NotFound)
           ELSE /\ pc' = [pc EXCEPT ![w] = "loaded"]
                /\ local' = [local EXCEPT ![w].snapshot = result]
        /\ UNCHANGED <<memVars, ddbVars, optVars, callVars, histVars>>

\* FindById, line 41: GetEventsByIdSinceSeqNr, Query(context.Background(), ...)
\* at line 274; then the replay and Rename
FaultReplay(w) ==
    LET found == replayUserAccount(
                     DdbGetEventsByIdSinceSeqNr(journalTable, local[w].id,
                         FirstSeqNrToReplay(local[w].snapshot)),
                     local[w].snapshot)
        renamed == Rename(found, local[w].name)
    IN  /\ pc[w] = "loaded"
        /\ local' = [local EXCEPT ![w].event = renamed.event,
                                  ![w].aggregate = renamed.aggregate,
                                  ![w].version = renamed.aggregate.version,
                                  ![w].sent = Sent(local[w], "Query", Background)]
        /\ pc' = [pc EXCEPT ![w] = "renamed"]
        /\ UNCHANGED <<memVars, ddbVars, optVars, callVars, histVars>>

\* updateEventAndSnapshotOpt, line 507: TransactWriteItems(ctx, ...); the
\* retention pass follows a committed write
FaultWrite(w, fault, at) ==
    LET out == FaultyTransactWriteItems(
                   IF Refused(w) THEN "RequestError" ELSE fault, at,
                   UpdateTransactItems(Options, local[w].event, local[w].version,
                       IF local[w].mode = "StoreEvent" THEN Nil ELSE local[w].aggregate),
                   journalTable, snapshotTable)
        call == [local[w] EXCEPT !.err = out.err, !.reasons = out.reasons,
                                 !.writeResult = TransactError(out)]
    IN  /\ pc[w] = "renamed"
        /\ journalTable' = out.journal
        /\ snapshotTable' = out.snapshot
        /\ IF TransactError(out) = Ok /\ PurgeIsEnabled(Options)
           THEN pc' = [pc EXCEPT ![w] = "written"] /\ local' = [local EXCEPT ![w] = call]
           ELSE FaultReturn(w, call, TransactError(out))
        /\ UNCHANGED <<memVars, optVars, callVars, histVars>>

\* getSnapshotCount, line 691: Query(ctx, ...)
FaultPurgeCount(w) ==
    LET snapshotCount == getSnapshotCount(snapshotTable, local[w].id) - 1
    IN  /\ pc[w] = "written"
        /\ IF Refused(w) THEN FaultReturn(w, local[w], IOError)
           ELSE IF ExcessIsPositive(snapshotCount, keepSnapshotCount)
           THEN /\ pc' = [pc EXCEPT ![w] = "counted"]
                /\ local' = [local EXCEPT ![w].snapshotCount = snapshotCount]
           ELSE FaultReturn(w, local[w], Ok)
        /\ UNCHANGED <<memVars, ddbVars, optVars, callVars, histVars>>

\* getLastSnapshotKeys, line 736: Query(ctx, ...)
FaultPurgeKeys(w) ==
    LET q == getLastSnapshotKeys(snapshotTable, Options, local[w].id,
                 ExcessAsLimit(local[w].snapshotCount, keepSnapshotCount))
    IN  /\ pc[w] = "counted"
        /\ IF Refused(w) \/ q.err # NoError
           THEN FaultReturn(w, local[w], IOError)
           ELSE /\ pc' = [pc EXCEPT ![w] = "selected"]
                /\ local' = [local EXCEPT ![w].keys = q.keys]
        /\ UNCHANGED <<memVars, ddbVars, optVars, callVars, histVars>>

\* line 657: one UpdateItem(ctx, ...) per key, or line 610: one
\* BatchWriteItem(context.Background(), ...) of the deletes
FaultPurgeApply(w) ==
    /\ pc[w] = "selected"
    /\ IF DeleteTtlIsFinite(Options)
       THEN IF local[w].keys = <<>>
            THEN FaultReturn(w, local[w], Ok) /\ UNCHANGED snapshotTable
            ELSE IF Refused(w)
            THEN FaultReturn(w, local[w], IOError) /\ UNCHANGED snapshotTable
            ELSE /\ snapshotTable' = UpdateItemTtl(Head(local[w].keys),
                                                   ExpiryTime(Options), snapshotTable)
                 /\ local' = [local EXCEPT ![w].keys = Tail(@)]
                 /\ UNCHANGED pc
       ELSE LET d == BatchDelete(local[w].keys, snapshotTable)
            IN  /\ snapshotTable' = d.snapshot
                /\ FaultReturn(w, [local[w] EXCEPT
                                      !.sent = Sent(local[w], "BatchWriteItem", Background)],
                               IF d.err # NoError THEN IOError ELSE Ok)
    /\ UNCHANGED <<memVars, journalTable, optVars, callVars, histVars>>

NextFault ==
    \/ \E w \in FaultWriters, id \in UserAccountIds, name \in Names :
          FaultStart(w, "Create", "StoreEventAndSnapshot", id, name)
    \/ \E w \in FaultWriters, mode \in StoreModes, id \in UserAccountIds,
          name \in Names : FaultStart(w, "Update", mode, id, name)
    \/ \E w \in FaultWriters : FaultCancel(w)
    \/ \E w \in FaultWriters, f \in FaultInputs : FaultCreate(w, f.fault, f.at)
    \/ \E w \in FaultWriters : FaultLoad(w)
    \/ \E w \in FaultWriters : FaultReplay(w)
    \/ \E w \in FaultWriters, f \in FaultInputs : FaultWrite(w, f.fault, f.at)
    \/ \E w \in FaultWriters : FaultPurgeCount(w)
    \/ \E w \in FaultWriters : FaultPurgeKeys(w)
    \/ \E w \in FaultWriters : FaultPurgeApply(w)
    \/ TtlSweep

SpecFault == InitRetention /\ [][NextFault]_vars

(***************************************************************************)
(* The transactional write of EventStoreOnDynamoDB, called with any event, *)
(* expected version and aggregate, over a backend that fails requests.     *)
(* The write and the retention pass that follows it are one step each.     *)
(***************************************************************************)
TransactWriter == "w1"

\* the aggregates handed over with event e: its id and name, any sequence
\* number from 0 and any version (the version of a new account with a
\* creation)
TransactAggregateInputs(e) ==
    {UserAccount(e.aggregateId, e.name, s, v) :
        s \in 0..MaxSeqNr, v \in IF IsCreated(e) THEN {1} ELSE Versions}

\* the account the calls are about, with any event; every other account is
\* only created, with its first event
TransactAccount == newUserAccountId("1")

CreationInputs ==
    {e \in EventInputs : IsCreated(e) /\ (e.aggregateId = TransactAccount \/ e.seqNr = 1)}

ChangeInputs == {e \in EventInputs : ~IsCreated(e) /\ e.aggregateId = TransactAccount}

\* the positions of the items whose condition does not hold on the tables
FailedConditions(items, journal, snapshot) ==
    {i \in DOMAIN items : ~ConditionHolds(items[i], journal, snapshot)}

\* the requests a retention pass issues on the table, in order
PurgeRequests(snapshot, opts, aggregateId) ==
    IF ~PurgeIsEnabled(opts)
    THEN <<>>
    ELSE LET snapshotCount == getSnapshotCount(snapshot, aggregateId) - 1
             q == getLastSnapshotKeys(snapshot, opts, aggregateId,
                      ExcessAsLimit(snapshotCount, opts.keepSnapshotCount))
         IN  IF ~ExcessIsPositive(snapshotCount, opts.keepSnapshotCount)
             THEN <<"Query">>
             ELSE IF q.err # NoError
             THEN <<"Query", "Query">>
             ELSE IF DeleteTtlIsFinite(opts)
             THEN <<"Query", "Query">> \o [i \in DOMAIN q.keys |-> "UpdateItem"]
             ELSE <<"Query", "Query", "BatchWriteItem">>

\* the record of a call: the operation and its arguments, the items of the
\* transaction and the positions of those whose condition failed, what the
\* backend answered, what the write returned, the requests of the pass and
\* what the call returned
TransactCall(op, event, version, aggregate, items, out) ==
    [op |-> op, event |-> event, version |-> version, aggregate |-> aggregate,
     items |-> items,
     failed |-> FailedConditions(items, journalTable, snapshotTable),
     twice |-> SameItemTwice(items),
     err |-> out.err, reasons |-> out.reasons,
     writeResult |-> TransactError(out), requests |-> <<>>,
     result |-> TransactError(out)]

TransactWithinBounds == Cardinality(journalTable) < MaxEvents

\* PersistEventAndSnapshot with a creation event: createEventAndSnapshot
TransactCreate(event, aggregate, fault, at) ==
    LET items == CreateTransactItems(Options, event, aggregate)
        out == FaultyTransactWriteItems(fault, at, items, journalTable, snapshotTable)
    IN  /\ TransactWithinBounds
        /\ pc[TransactWriter] = "idle"
        /\ IsCreated(event)
        /\ journalTable' = out.journal
        /\ snapshotTable' = out.snapshot
        /\ local' = [local EXCEPT ![TransactWriter] =
                        TransactCall("PersistEventAndSnapshot", event,
                                     aggregate.version, aggregate, items, out)]
        /\ pc' = [pc EXCEPT ![TransactWriter] = "returned"]
        /\ UNCHANGED <<memVars, optVars, callVars, histVars>>

\* PersistEvent, or PersistEventAndSnapshot with another event:
\* updateEventAndSnapshotOpt; the pass follows a committed write
TransactUpdate(op, event, version, aggregate, fault, at) ==
    LET items == UpdateTransactItems(Options, event, version, aggregate)
        out == FaultyTransactWriteItems(fault, at, items, journalTable, snapshotTable)
    IN  /\ TransactWithinBounds
        /\ pc[TransactWriter] = "idle"
        /\ ~IsCreated(event)
        /\ IF op = "PersistEvent"
           THEN aggregate = Nil
           ELSE aggregate # Nil /\ version = aggregate.version
        /\ journalTable' = out.journal
        /\ snapshotTable' = out.snapshot
        /\ local' = [local EXCEPT ![TransactWriter] =
                        TransactCall(op, event, version, aggregate, items, out)]
        /\ pc' = [pc EXCEPT ![TransactWriter] =
                     IF TransactError(out) = Ok THEN "written" ELSE "returned"]
        /\ UNCHANGED <<memVars, optVars, callVars, histVars>>

\* tryPurgeExcessSnapshots after the committed update
TransactPurge ==
    LET call == local[TransactWriter]
        purged == tryPurgeExcessSnapshots(snapshotTable, Options, call.event.aggregateId)
    IN  /\ pc[TransactWriter] = "written"
        /\ snapshotTable' = purged.snapshot
        /\ local' = [local EXCEPT ![TransactWriter] =
                        [call EXCEPT !.result = purged.result,
                                     !.requests = PurgeRequests(snapshotTable, Options,
                                                      call.event.aggregateId)]]
        /\ pc' = [pc EXCEPT ![TransactWriter] = "returned"]
        /\ UNCHANGED <<memVars, journalTable, optVars, callVars, histVars>>

\* the caller has read what the call returned
TransactReturn ==
    /\ pc[TransactWriter] = "returned"
    /\ pc' = [pc EXCEPT ![TransactWriter] = "idle"]
    /\ local' = [local EXCEPT ![TransactWriter] = Nil]
    /\ UNCHANGED <<memVars, ddbVars, optVars, callVars, histVars>>

NextTransact ==
    \/ \E event \in CreationInputs, f \in FaultInputs :
          \E aggregate \in TransactAggregateInputs(event) :
              TransactCreate(event, aggregate, f.fault, f.at)
    \/ \E event \in ChangeInputs, version \in Versions, f \in FaultInputs :
          TransactUpdate("PersistEvent", event, version, Nil, f.fault, f.at)
    \/ \E event \in ChangeInputs, f \in FaultInputs :
          \E aggregate \in TransactAggregateInputs(event) :
              TransactUpdate("PersistEventAndSnapshot", event, aggregate.version,
                             aggregate, f.fault, f.at)
    \/ TransactPurge
    \/ TransactReturn
    \/ TtlSweep

SpecTransact == InitRetention /\ [][NextTransact]_vars

\* the call on record, once its transactional write has been answered
TransactAnswered == local[TransactWriter] # Nil

\* the backend has cancelled the transaction and names a failed condition
CheckFailed(call) ==
    /\ call.err = "TransactionCanceledException"
    /\ \E i \in DOMAIN call.reasons : call.reasons[i] = "ConditionalCheckFailed"

(***************************************************************************)
(* C22: a transactional write, genesis or update, that the backend         *)
(* cancelled with at least one reason "ConditionalCheckFailed" returns     *)
(* OptimisticLockError, whichever item's condition failed and whatever the *)
(* other reasons are; a write that failed otherwise, by a cancellation     *)
(* without that reason or by an error that is no cancellation, returns     *)
(* IOError; and the error of the write is what the call returns.           *)
(***************************************************************************)
C22_CancelledWriteClassified ==
    TransactAnswered =>
        LET call == local[TransactWriter]
        IN  /\ call.writeResult =
                   IF call.err = NoError THEN Ok
                   ELSE IF CheckFailed(call) THEN OptimisticLockError
                   ELSE IOError
            /\ call.err = "TransactionCanceledException" =>
                  \A i \in DOMAIN call.reasons :
                      /\ call.reasons[i] = "ConditionalCheckFailed" => i \in call.failed
                      /\ call.reasons[i] = "None" => i \notin call.failed
            /\ call.err = NoError => call.failed = {}
            /\ call.writeResult # Ok => call.result = call.writeResult

\* the historical put alone failed its condition while the backend reported
\* a conflict on another item, and the update returned OptimisticLockError
C22_Witness ==
    /\ TransactAnswered
    /\ ~IsCreated(local[TransactWriter].event)
    /\ local[TransactWriter].failed = {3}
    /\ \E i \in DOMAIN local[TransactWriter].reasons :
          local[TransactWriter].reasons[i] = "TransactionConflict"
    /\ local[TransactWriter].result = OptimisticLockError

(***************************************************************************)
(* C25: every request of a call is sent with the caller's context: once    *)
(* the caller has cancelled, no query, transactional write, batch delete   *)
(* or single-item update of the call is carried out with another context,  *)
(* one that cannot be cancelled.                                           *)
(***************************************************************************)
C25_RequestsBoundToCallerContext ==
    \A w \in FaultWriters :
        local[w] # Nil => \A request \in local[w].sent : request[2] # Background

\* the call of w has returned an error of the retention pass: its
\* transactional write was committed, and the pass that followed failed
RetentionFailed(w) ==
    /\ local[w] # Nil
    /\ pc[w] = "idle"
    /\ local[w].op = "Update"
    /\ local[w].writeResult = Ok
    /\ local[w].result # Ok

\* the same call of the store once more
Retry(call) ==
    DdbStore(journalTable, snapshotTable, Options, call.mode,
             [event |-> call.event, aggregate |-> call.aggregate])

(***************************************************************************)
(* C21: when the retention pass of PersistEvent or PersistEventAndSnapshot *)
(* fails, the call returns the error while its write stays committed: the  *)
(* journal row of the event is there and the version of the current-state  *)
(* row is one above the expected version, so that the same call made again *)
(* returns OptimisticLockError and leaves the journal as it is.            *)
(***************************************************************************)
C21_RetentionErrorKeepsWrite ==
    \A w \in FaultWriters :
        RetentionFailed(w) =>
            LET call == local[w]
                retry == Retry(call)
            IN  /\ call.result = IOError
                /\ \E row \in JournalRows(journalTable, call.id) :
                      /\ row.seq_nr = call.event.seqNr
                      /\ eventConverter(row.payload) = call.event
                /\ Cardinality(JournalRows(journalTable, call.id)) = call.journalBefore + 1
                /\ \A row \in CurrentRows(snapshotTable, call.id) :
                      row.version = call.version + 1
                /\ CurrentRows(snapshotTable, call.id) # {}
                /\ retry.result = OptimisticLockError
                /\ retry.journal = journalTable
                /\ retry.snapshot = snapshotTable

\* an update has returned the error of its pass while the caller had not
\* cancelled: the write is committed and the pass failed on its own
C21_Witness ==
    \E w \in FaultWriters :
        /\ RetentionFailed(w)
        /\ local[w].mode = "StoreEvent"
        /\ ~local[w].cancelled
        /\ \E row \in JournalRows(journalTable, local[w].id) :
              row.seq_nr = local[w].event.seqNr

\* the step is a transactional write of the store
TransactWriteStep ==
    /\ pc[TransactWriter] = "idle"
    /\ local'[TransactWriter] # Nil

KeysOf(table) == {KeyOf(row) : row \in table}

\* the key of the current-state row of the aggregate of event e
CurrentKey(e) == <<ResolvePkey(e.aggregateId, shardCount), ResolveSkey(e.aggregateId, 0)>>

(***************************************************************************)
(* C26: a historical row is written with seq_nr >= 1, version 1 and ttl 0; *)
(* it is written under a key no row had, so neither over a historical row  *)
(* nor over the current-state row; and the version the optimistic lock     *)
(* checks and advances is that of the current-state row alone, the version *)
(* of every historical row staying as written.                             *)
(***************************************************************************)
C26_HistoricalRowsAsWritten ==
    [][TransactWriteStep =>
         LET call == local'[TransactWriter]
             current == CurrentKey(call.event)
         IN  /\ \A row \in snapshotTable' :
                    KeyOf(row) \notin KeysOf(snapshotTable) /\ KeyOf(row) # current =>
                        /\ row.seq_nr >= 1
                        /\ row.version = 1
                        /\ row.ttl = 0
             /\ \A row \in snapshotTable :
                    KeyOf(row) # current => row \in snapshotTable'
             /\ \A row \in snapshotTable :
                    KeyOf(row) = current =>
                        \E after \in snapshotTable' :
                            /\ KeyOf(after) = current
                            /\ after.seq_nr = 0
                            /\ after.version \in {row.version, row.version + 1}
             /\ \A i \in DOMAIN call.items :
                    call.items[i].op = "Update" => call.items[i].key = current
             /\ Cardinality(KeysOf(snapshotTable')) = Cardinality(snapshotTable')
    ]_vars

\* an update has written a historical row next to one written before, and
\* the pass has not run yet
C26_Witness ==
    /\ pc[TransactWriter] = "written"
    /\ local[TransactWriter].aggregate # Nil
    /\ keepSnapshot
    /\ \E row \in HistoricalRows(snapshotTable, local[TransactWriter].event.aggregateId) :
          /\ row.skey = ResolveSkey(local[TransactWriter].event.aggregateId,
                                    local[TransactWriter].aggregate.seqNr)
          /\ row.version = 1
          /\ row.ttl = 0
    /\ Cardinality(HistoricalRows(snapshotTable,
                       local[TransactWriter].event.aggregateId)) > 1

\* the keys of the snapshot rows the step has added, the current-state key
\* of the call's aggregate aside
NewHistoricalKeys(call) ==
    (KeysOf(snapshotTable') \ KeysOf(snapshotTable)) \ {CurrentKey(call.event)}

\* the key of the historical row of the call
HistoricalKey(call) ==
    <<ResolvePkey(call.event.aggregateId, shardCount),
      ResolveSkey(call.event.aggregateId, call.aggregate.seqNr)>>

(***************************************************************************)
(* C27: a committed write adds a historical row exactly when keepSnapshot  *)
(* is set and the call is PersistEventAndSnapshot, genesis or update: one  *)
(* row, under the sort key of the aggregate's own sequence number, in the  *)
(* transaction that adds the event's journal row; a failed write and every *)
(* other step add none.  Without keepSnapshot no pass issues a request and *)
(* the snapshot table holds one row per created aggregate and no other.    *)
(***************************************************************************)
C27_HistoricalRowWithSnapshotWrite ==
    [][/\ TransactWriteStep =>
            LET call == local'[TransactWriter]
            IN  IF call.writeResult = Ok
                THEN /\ NewHistoricalKeys(call) =
                            IF keepSnapshot /\ call.op = "PersistEventAndSnapshot"
                            THEN {HistoricalKey(call)}
                            ELSE {}
                     /\ Cardinality(journalTable') = Cardinality(journalTable) + 1
                     /\ \E row \in journalTable' \ journalTable :
                            eventConverter(row.payload) = call.event
                ELSE /\ snapshotTable' = snapshotTable
                     /\ journalTable' = journalTable
       /\ ~TransactWriteStep => KeysOf(snapshotTable') \subseteq KeysOf(snapshotTable)
       /\ ~keepSnapshot =>
            /\ local'[TransactWriter] # Nil => local'[TransactWriter].requests = <<>>
            /\ \A id \in UserAccountIds :
                  /\ RowsOf(snapshotTable', id) = CurrentRows(snapshotTable', id)
                  /\ Cardinality(RowsOf(snapshotTable', id)) =
                         IF JournalRows(journalTable', id) # {} THEN 1 ELSE 0
            /\ \A row \in snapshotTable' : \E id \in UserAccountIds : row.aid = AsString(id)
    ]_vars

\* an update with a snapshot has added the historical row under the
\* aggregate's sequence number, which is not that of its event
C27_Witness ==
    /\ pc[TransactWriter] = "written"
    /\ keepSnapshot
    /\ local[TransactWriter].op = "PersistEventAndSnapshot"
    /\ local[TransactWriter].aggregate.seqNr # local[TransactWriter].event.seqNr
    /\ HistoricalKey(local[TransactWriter]) \in KeysOf(snapshotTable)
    /\ \E row \in journalTable :
          eventConverter(row.payload) = local[TransactWriter].event

(***************************************************************************)
(* C29: hard-delete retention with keep count K under writers that commit  *)
(* updates of one aggregate and interleave the count, the key query and    *)
(* the delete of their passes: once every pass has finished, the number of *)
(* historical rows is at most K + 1 and, if at least K were written, at    *)
(* least K - 1.                                                            *)
(***************************************************************************)
C29_RaceOffByAtMostOne ==
    (keepSnapshot /\ keepSnapshotCount > 0 /\ ~DeleteTtlIsFinite(Options) /\ AllIdle) =>
        /\ Cardinality(HistoricalRows(snapshotTable, RetentionAccount))
              <= keepSnapshotCount + 1
        /\ Cardinality(JournalRows(journalTable, RetentionAccount)) >= keepSnapshotCount
              => Cardinality(HistoricalRows(snapshotTable, RetentionAccount))
                    >= keepSnapshotCount - 1

\* the update of w has returned success with its pass run to the end
PassCompleted(w) ==
    /\ local[w] # Nil
    /\ pc[w] = "idle"
    /\ local[w].op = "Update"
    /\ local[w].writeResult = Ok
    /\ local[w].result = Ok
    /\ PurgeIsEnabled(Options)

(***************************************************************************)
(* C30: whatever earlier passes left behind (a pass that was cut short     *)
(* after its write was committed leaves more than K rows), the pass of the *)
(* next update that commits and runs to its end, with no other caller at   *)
(* work, leaves at most K historical rows with hard delete, and at most K  *)
(* historical rows without a ttl with a TTL.                               *)
(***************************************************************************)
C30_NextPassRestoresBound ==
    \A w \in FaultWriters :
        PassCompleted(w) =>
            Cardinality(RowsSubjectToPass(snapshotTable, local[w].id))
                <= keepSnapshotCount

\* more than K rows were left when the update began, and its pass has
\* brought them back to K
C30_Witness ==
    \E w \in FaultWriters :
        /\ PassCompleted(w)
        /\ local[w].excessBefore
        /\ Cardinality(RowsSubjectToPass(snapshotTable, local[w].id)) = keepSnapshotCount

(***************************************************************************)
(* C31: version equals journal length: in every reachable state of either  *)
(* backend, for every created aggregate the version of the current state   *)
(* equals the number of journal entries stored for that aggregate: the     *)
(* version of the stored aggregate and the length of its event list in     *)
(* memory, the version of the current-state row and the number of journal  *)
(* rows in DynamoDB.                                                       *)
(***************************************************************************)
MemVersionIsJournalLength ==
    \A id \in UserAccountIds :
        snapshots[AsString(id)] # Nil
        => snapshots[AsString(id)].version = Len(events[AsString(id)])

DdbVersionIsJournalLength ==
    \A id \in UserAccountIds :
        \A row \in CurrentRows(snapshotTable, id) :
            row.version = Cardinality(JournalRows(journalTable, id))

C31_VersionEqualsJournalLength ==
    /\ MemVersionIsJournalLength
    /\ DdbVersionIsJournalLength

(***************************************************************************)
(* C32: an update (persist_event, or persist_event_and_snapshot with an    *)
(* event that is not a creation) for an aggregate that was never created   *)
(* (no stored snapshot in memory, no current-state row in DynamoDB) is     *)
(* rejected like a stale version: it returns OptimisticLockError in both   *)
(* backends, never crashes, and writes neither a journal entry nor a       *)
(* snapshot.                                                               *)
(***************************************************************************)
C32_UnknownAggregateUpdateRejected ==
    [][(CallStep /\ UpdateCalled) =>
         LET id == lastCall'.event.aggregateId
         IN  /\ snapshots[AsString(id)] = Nil
                   => (memResult' = OptimisticLockError /\ UNCHANGED memVars)
             /\ CurrentRows(snapshotTable, id) = {}
                   => (ddbResult' = OptimisticLockError /\ UNCHANGED ddbVars)]_vars

(***************************************************************************)
(* C33: TTL retention (keep_snapshot, keep count K > 0, a finite TTL)      *)
(* never marks rows inside the keep window: in every state reached by      *)
(* updates and retention passes, of the historical rows of the aggregate   *)
(* (marked rows that are not swept yet are counted) at least K, or all of  *)
(* them when there are fewer than K, still have ttl = 0.                   *)
(***************************************************************************)
KeepWindow(snapshot, aggregateId, k) ==
    IF Cardinality(HistoricalRows(snapshot, aggregateId)) < k
    THEN Cardinality(HistoricalRows(snapshot, aggregateId))
    ELSE k

C33_TtlKeepsWindowUnmarked ==
    (keepSnapshot /\ keepSnapshotCount > 0 /\ DeleteTtlIsFinite(Options))
        => Cardinality(UnmarkedRows(snapshotTable, RetentionAccount))
              >= KeepWindow(snapshotTable, RetentionAccount, keepSnapshotCount)

(***************************************************************************)
(* C34: read/write version agreement.  After successful writes on an       *)
(* aggregate (a genesis, event-only and snapshot-advancing updates),       *)
(* get_latest_snapshot of it is not empty and finds exactly one row, and   *)
(* the version it stamps on the aggregate it returns is the expected       *)
(* version with which the next update (an event with a sequence number     *)
(* that is not stored yet) succeeds; with any other expected version the   *)
(* next update returns OptimisticLockError.  In both backends.             *)
(***************************************************************************)
\* the rows the query of GetLatestSnapshotById finds
LatestSnapshotItems(snapshot, id) ==
    {row \in snapshot : row.aid = AsString(id) /\ row.seq_nr = 0}

\* no journal row and no historical snapshot row of the aggregate has the
\* sequence number of the event of the call
SeqNrIsUnused(call) ==
    /\ \A row \in JournalRows(journalTable, call.event.aggregateId) :
          row.seq_nr # call.event.seqNr
    /\ \A row \in HistoricalRows(snapshotTable, call.event.aggregateId) :
          row.seq_nr # call.event.seqNr

C34_ReadWriteVersionAgreement ==
    [][/\ \A id \in UserAccountIds :
             /\ events[AsString(id)] # <<>>
                   => MemGetLatestSnapshotById(snapshots, id) # Nil
             /\ JournalRows(journalTable, id) # {}
                   => /\ DdbGetLatestSnapshotById(snapshotTable, id) # Nil
                      /\ Cardinality(LatestSnapshotItems(snapshotTable, id)) = 1
       /\ (CallStep /\ UpdateCalled) =>
             LET id == lastCall'.event.aggregateId
                 mem == MemGetLatestSnapshotById(snapshots, id)
                 ddb == DdbGetLatestSnapshotById(snapshotTable, id)
             IN  /\ mem # Nil =>
                       IF lastCall'.version = mem.version
                       THEN memResult' = Ok
                       ELSE memResult' = OptimisticLockError
                 /\ ddb # Nil =>
                       IF lastCall'.version = ddb.version
                       THEN SeqNrIsUnused(lastCall') => ddbResult' = Ok
                       ELSE ddbResult' = OptimisticLockError
    ]_vars

(***************************************************************************)
(* Callers that retry.  A caller of the repository on EventStoreOnDynamoDB *)
(* whose update returned OptimisticLockError loads the account again       *)
(* (FindById: GetLatestSnapshotById, GetEventsByIdSinceSeqNr and the       *)
(* replay), renames it again and stores the new event with the version and *)
(* the sequence number it has loaded; every other answer ends its call.    *)
(* Each step is one request to the backend; the backend's sweeper removes  *)
(* rows whose ttl is set.                                                  *)
(***************************************************************************)
\* new calls are started while the journal holds fewer events than this
MaxRetryWrites == 2

\* the call of a caller that retries: the call and the number of times it
\* has loaded the account
RetryCall(op, mode, id, name, loads) ==
    [loads |-> loads] @@ DdbCall(op, mode, id, name)

\* the update of w has returned OptimisticLockError and w has not loaded
\* the account again yet
Rejected(w) ==
    /\ pc[w] = "idle"
    /\ local[w] # Nil
    /\ local[w].op = "Update"
    /\ local[w].result = OptimisticLockError

RetryWithinBounds == Cardinality(journalTable) < MaxRetryWrites

\* NewUserAccount and StoreEventAndSnapshot
RetryCreate(w, id, name) ==
    LET created == NewUserAccount(id, name)
        ddb == DdbPersistEventAndSnapshot(journalTable, snapshotTable, Options,
                                          created.event, created.aggregate)
    IN  /\ RetryWithinBounds
        /\ pc[w] = "idle"
        /\ ~Rejected(w)
        /\ local' = [local EXCEPT ![w] =
                        [RetryCall("Create", "StoreEventAndSnapshot", id, name, 0) EXCEPT
                            !.event = created.event,
                            !.aggregate = created.aggregate,
                            !.version = created.aggregate.version,
                            !.result = ddb.result]]
        /\ journalTable' = ddb.journal
        /\ snapshotTable' = ddb.snapshot
        /\ UNCHANGED <<memVars, optVars, callVars, histVars, pc>>

\* FindById, lines 33-39: GetLatestSnapshotById
RetryFind(w, id, name, mode, loads) ==
    LET result == DdbGetLatestSnapshotById(snapshotTable, id)
        call == [RetryCall("Update", mode, id, name, loads) EXCEPT
                    !.snapshot = result,
                    !.journalBefore = Cardinality(JournalRows(journalTable, id))]
    IN  /\ pc[w] = "idle"
        /\ IF result = Nil
           THEN /\ local' = [local EXCEPT ![w] = [call EXCEPT !.result = NotFound]]
                /\ UNCHANGED pc
           ELSE /\ local' = [local EXCEPT ![w] = call]
                /\ pc' = [pc EXCEPT ![w] = "loaded"]
        /\ UNCHANGED <<memVars, ddbVars, optVars, callVars, histVars>>

\* a caller starts an update
RetryLoad(w, id, name, mode) ==
    /\ RetryWithinBounds
    /\ ~Rejected(w)
    /\ RetryFind(w, id, name, mode, 1)

\* a caller whose update was rejected loads the account again
RetryReload(w) ==
    /\ Rejected(w)
    /\ RetryFind(w, local[w].id, local[w].name, local[w].mode, local[w].loads + 1)

\* the steps of a call that is under way
RetryProceed(w) ==
    \/ RetryReload(w)
    \/ DdbReplay(w)
    \/ DdbWrite(w)
    \/ DdbPurgeCount(w)
    \/ DdbPurgeKeys(w)
    \/ DdbPurgeApply(w)

NextRetry ==
    \/ \E w \in Writers : RetryCreate(w, RetentionAccount, "test")
    \/ \E w \in Writers, mode \in StoreModes :
          RetryLoad(w, RetentionAccount, "test2", mode)
    \/ \E w \in Writers : RetryReload(w)
    \/ \E w \in Writers : DdbReplay(w)
    \/ \E w \in Writers : DdbWrite(w)
    \/ \E w \in Writers : DdbPurgeCount(w)
    \/ \E w \in Writers : DdbPurgeKeys(w)
    \/ \E w \in Writers : DdbPurgeApply(w)
    \/ TtlSweep

\* a caller that has started a call goes on with it: its goroutine runs
\* until the call returns, and after OptimisticLockError it tries again
SpecRetry ==
    /\ InitRetention
    /\ [][NextRetry]_vars
    /\ \A w \in Writers : WF_vars(RetryProceed(w))

\* the update of w is under way
Updating(w) == pc[w] # "idle" /\ local[w].op = "Update"

\* the update of w has returned success
Succeeded(w) ==
    /\ pc[w] = "idle"
    /\ local[w] # Nil
    /\ local[w].op = "Update"
    /\ local[w].result = Ok

(***************************************************************************)
(* C35: retry progress.  A caller that after each OptimisticLockError      *)
(* loads the account again, applies its command again and stores the event *)
(* with the version and the next sequence number it has loaded eventually  *)
(* succeeds once no other caller commits in between: an update that is     *)
(* under way leads to that update having returned success.  And no         *)
(* reachable state of the store (after retention passes, sweeps or         *)
(* retention errors, keep_snapshot on or off) rejects every update that    *)
(* carries the stored version: the update a caller builds from what it     *)
(* loads in that state does not return OptimisticLockError.                *)
(***************************************************************************)
\* the update of the account loaded from the tables as they are
UpdateOfLoaded(mode) ==
    DdbStore(journalTable, snapshotTable, Options, mode,
             Rename(DdbFindById(journalTable, snapshotTable, RetentionAccount), "test2"))

StoredVersionAccepted ==
    DdbFindById(journalTable, snapshotTable, RetentionAccount) # Nil
        => \A mode \in StoreModes : UpdateOfLoaded(mode).result # OptimisticLockError

C35_RetryEventuallySucceeds ==
    /\ []StoredVersionAccepted
    /\ \A w \in Writers : Updating(w) ~> Succeeded(w)

=============================================================================
